---- MODULE Spec2Model ----
(***************************************************************************)
(* Shopify MCP server: the tenant client's request executor, the client    *)
(* operations built on it, the tool handlers around them and the           *)
(* pagination helpers.                                                     *)
(*                                                                         *)
(* Strings are TLA+ strings; characters are strings of length one.         *)
(* Record constructors list their fields in the order TLC sorts field      *)
(* names into, so a record value shared by TLC's workers is never          *)
(* rearranged while another worker reads it.                               *)
(***************************************************************************)
EXTENDS Integers, Sequences, FiniteSets, TLC

----------------------------------------------------------------------------
(* Bounds of the model *)

\* longest Retry-After header value enumerated over HeaderAlphabet
MaxHeaderLen == 3
\* largest limit argument a list tool is invoked with (the schema allows 250)
MaxLimit == 5
\* largest number of items in an upstream array
MaxItems == 52
\* largest returnedCount / requestedLimit handed to hasMoreItems
MaxCount == 12
\* largest number of items in a flat array and in a helper-built page
MaxFlat == 2
\* longest key enumerated over KeyAlphabet
MaxKeyLen == 4
\* largest number of entries of an enumerated mapping
MaxEntries == 2
\* largest number of order actions one client is asked for in a row
MaxCalls == 3
\* largest number of items in a list handed to the Markdown renderer
MaxRows == 2

(* Program constants *)

\* retryAfter ? parseInt(retryAfter, 10) : 60
DefaultRetryAfter == 60
\* params?.limit || 50
DefaultLimit == 50

----------------------------------------------------------------------------
(* Strings *)

Char(s, i) == SubSeq(s, i, i)

Digits == {"0", "1", "2", "3", "4", "5", "6", "7", "8", "9"}

DigitVal(c) ==
  CASE c = "0" -> 0 [] c = "1" -> 1 [] c = "2" -> 2 [] c = "3" -> 3
    [] c = "4" -> 4 [] c = "5" -> 5 [] c = "6" -> 6 [] c = "7" -> 7
    [] c = "8" -> 8 [] c = "9" -> 9

LowerLetters == "abcdefghijklmnopqrstuvwxyz"
UpperLetters == "ABCDEFGHIJKLMNOPQRSTUVWXYZ"

IsLower(c) == \E i \in 1..26 : Char(LowerLetters, i) = c
IsUpper(c) == \E i \in 1..26 : Char(UpperLetters, i) = c

\* String.prototype.toUpperCase on one character
ToUpper(c) ==
  IF IsLower(c)
    THEN Char(UpperLetters, CHOOSE i \in 1..26 : Char(LowerLetters, i) = c)
    ELSE c

\* String.prototype.toLowerCase on one character
ToLower(c) ==
  IF IsUpper(c)
    THEN Char(LowerLetters, CHOOSE i \in 1..26 : Char(UpperLetters, i) = c)
    ELSE c

\* String.prototype.includes
Contains(msg, s) ==
  \E i \in 0..(Len(msg) - Len(s)) : SubSeq(msg, i + 1, i + Len(s)) = s

Quote(s) == "\"" \o s \o "\""

\* String(n) for an integer n >= 0
RECURSIVE NatToString(_)
NatToString(n) ==
  IF n < 10 THEN Char("0123456789", n + 1)
  ELSE NatToString(n \div 10) \o Char("0123456789", (n % 10) + 1)

NumberToString(n) == IF n < 0 THEN "-" \o NatToString(0 - n) ELSE NatToString(n)

----------------------------------------------------------------------------
(* Numbers as JavaScript has them: an integer or NaN *)

Num(v) == [v |-> v, nan |-> FALSE]
NaN == [v |-> 0, nan |-> TRUE]

\* the digits of s from position i on, as far as they go
RECURSIVE DigitRunEnd(_, _)
DigitRunEnd(s, i) ==
  IF i <= Len(s) /\ Char(s, i) \in Digits THEN DigitRunEnd(s, i + 1) ELSE i

RECURSIVE DigitsValue(_, _, _)
DigitsValue(s, i, j) ==
  IF j < i THEN 0 ELSE DigitsValue(s, i, j - 1) * 10 + DigitVal(Char(s, j))

RECURSIVE SkipWhite(_, _)
SkipWhite(s, i) ==
  IF i <= Len(s) /\ Char(s, i) = " " THEN SkipWhite(s, i + 1) ELSE i

\* parseInt(s, 10): leading white space, an optional sign, then the longest
\* run of digits; NaN when there is no digit there
parseInt(s) ==
  LET w == SkipWhite(s, 1)
      signed == w <= Len(s) /\ Char(s, w) \in {"-", "+"}
      neg == signed /\ Char(s, w) = "-"
      d == IF signed THEN w + 1 ELSE w
      e == DigitRunEnd(s, d)
  IN  IF e = d THEN NaN
      ELSE Num(IF neg THEN 0 - DigitsValue(s, d, e - 1) ELSE DigitsValue(s, d, e - 1))

----------------------------------------------------------------------------
(* Case converter *)

\* str.replace(/_([a-z])/g, (_, letter) => letter.toUpperCase())
RECURSIVE snakeToCamelFrom(_, _)
snakeToCamelFrom(str, i) ==
  IF i > Len(str) THEN ""
  ELSE IF Char(str, i) = "_" /\ i < Len(str) /\ IsLower(Char(str, i + 1))
    THEN ToUpper(Char(str, i + 1)) \o snakeToCamelFrom(str, i + 2)
    ELSE Char(str, i) \o snakeToCamelFrom(str, i + 1)

\* snakeToCamel with /_([a-z0-9])/g
RECURSIVE snakeToCamelFrom_DigitsToo(_, _)
snakeToCamelFrom_DigitsToo(str, i) ==
  IF i > Len(str) THEN ""
  ELSE IF /\ Char(str, i) = "_" /\ i < Len(str)
          /\ (IsLower(Char(str, i + 1)) \/ Char(str, i + 1) \in Digits)
    THEN ToUpper(Char(str, i + 1)) \o snakeToCamelFrom_DigitsToo(str, i + 2)
    ELSE Char(str, i) \o snakeToCamelFrom_DigitsToo(str, i + 1)

snakeToCamel_DigitsToo(str) == snakeToCamelFrom_DigitsToo(str, 1)

snakeToCamel(str) == snakeToCamelFrom(str, 1)

\* str.replace(/[A-Z]/g, (letter) => `_${letter.toLowerCase()}`)
RECURSIVE camelToSnakeFrom(_, _)
camelToSnakeFrom(str, i) ==
  IF i > Len(str) THEN ""
  ELSE IF IsUpper(Char(str, i))
    THEN "_" \o ToLower(Char(str, i)) \o camelToSnakeFrom(str, i + 1)
    ELSE Char(str, i) \o camelToSnakeFrom(str, i + 1)

\* camelToSnake with /[A-Z0-9]/g
RECURSIVE camelToSnakeFrom_DigitsToo(_, _)
camelToSnakeFrom_DigitsToo(str, i) ==
  IF i > Len(str) THEN ""
  ELSE IF IsUpper(Char(str, i)) \/ Char(str, i) \in Digits
    THEN "_" \o ToLower(Char(str, i)) \o camelToSnakeFrom_DigitsToo(str, i + 1)
    ELSE Char(str, i) \o camelToSnakeFrom_DigitsToo(str, i + 1)

camelToSnake_DigitsToo(str) == camelToSnakeFrom_DigitsToo(str, 1)

\* camelToSnake that leaves the first character alone
camelToSnake_InternalOnly(str) ==
  IF str = "" THEN "" ELSE Char(str, 1) \o camelToSnakeFrom(str, 2)

camelToSnake(str) == camelToSnakeFrom(str, 1)

\* the transformer argument of transformKeys, by name
Transformers == {"snakeToCamel", "camelToSnake"}
Transform(transformer, key) ==
  IF transformer = "snakeToCamel" THEN snakeToCamel(key) ELSE camelToSnake(key)

----------------------------------------------------------------------------
(* Nested values: mappings, sequences and scalars of any depth.  One       *)
(* record shape for every node:                                            *)
(*   k      "undefined", "null", "string", "number", "boolean", "array",   *)
(*          "object", or "entry" for one key: value pair of an object      *)
(*   key    the key of an entry                                            *)
(*   s      the text of a string, String(v) of a number or boolean         *)
(*   items  the elements of an array, the entries of an object in          *)
(*          insertion order, the one value of an entry                     *)

Node(k, key, s, items) == [s |-> s, key |-> key, k |-> k, items |-> items]

TUndefined == Node("undefined", "", "", <<>>)
TNull == Node("null", "", "", <<>>)
TString(s) == Node("string", "", s, <<>>)
TNumber(n) == Node("number", "", NumberToString(n), <<>>)
TBool(b) == Node("boolean", "", IF b THEN "true" ELSE "false", <<>>)
TArray(items) == Node("array", "", "", items)
TObject(entries) == Node("object", "", "", entries)
Entry(key, value) == Node("entry", key, "", <<value>>)

\* result[key] = value: a key the object has keeps its place and takes the
\* new value, a new key goes to the end
Assign(result, key, value) ==
  IF \E i \in 1..Len(result) : result[i].key = key
    THEN [i \in 1..Len(result) |->
            IF result[i].key = key THEN Entry(key, value) ELSE result[i]]
    ELSE Append(result, Entry(key, value))

\* transformKeys(obj, transformer)
RECURSIVE transformKeys(_, _)
RECURSIVE transformEntries(_, _, _)

\* for (const [key, value] of Object.entries(obj))
\*   result[transformer(key)] = transformKeys(value, transformer)
transformEntries(entries, transformer, result) ==
  IF entries = <<>> THEN result
  ELSE transformEntries(Tail(entries), transformer,
         Assign(result, Transform(transformer, Head(entries).key),
                transformKeys(Head(entries).items[1], transformer)))

transformKeys(obj, transformer) ==
  CASE obj.k \in {"null", "undefined"} -> obj
    [] obj.k = "array" ->
         TArray([i \in 1..Len(obj.items) |-> transformKeys(obj.items[i], transformer)])
    [] obj.k = "object" -> TObject(transformEntries(obj.items, transformer, <<>>))
    [] OTHER -> obj

toSnakeCase(obj) == transformKeys(obj, "camelToSnake")

----------------------------------------------------------------------------
(* Query builder *)

\* String(value)
RECURSIVE String(_)
RECURSIVE join(_, _)

\* Array.prototype.join: undefined and null elements give the empty string
join(items, separator) ==
  IF Len(items) = 0 THEN ""
  ELSE LET first == IF items[1].k \in {"undefined", "null"} THEN "" ELSE String(items[1])
       IN  IF Len(items) = 1 THEN first
           ELSE first \o separator \o join(Tail(items), separator)

String(value) ==
  CASE value.k = "undefined" -> "undefined"
    [] value.k = "null" -> "null"
    [] value.k = "array" -> join(value.items, ",")
    [] value.k = "object" -> "[object Object]"
    [] OTHER -> value.s

\* the characters the application/x-www-form-urlencoded serializer leaves
\* as they are: ASCII letters and digits, and * - . _
Unreserved(c) == IsLower(c) \/ IsUpper(c) \/ c \in Digits \/ c \in {"*", "-", ".", "_"}

\* the serializer on one character: a space becomes +, every other
\* character outside the unreserved set its percent-encoded byte
UrlEncodeChar(c) ==
  CASE Unreserved(c) -> c
    [] c = " " -> "+"
    [] c = "," -> "%2C"
    [] c = ":" -> "%3A"
    [] c = ";" -> "%3B"
    [] c = "[" -> "%5B"
    [] c = "]" -> "%5D"

RECURSIVE UrlEncodeFrom(_, _)
UrlEncodeFrom(s, i) ==
  IF i > Len(s) THEN "" ELSE UrlEncodeChar(Char(s, i)) \o UrlEncodeFrom(s, i + 1)

UrlEncode(s) == UrlEncodeFrom(s, 1)

\* one name and value of a URLSearchParams list
Pair(name, value) == [value |-> value, name |-> name]

\* URLSearchParams.prototype.set: the first pair of that name takes the
\* value, a new name goes to the end
set(queryParams, name, value) ==
  IF \E i \in 1..Len(queryParams) : queryParams[i].name = name
    THEN [i \in 1..Len(queryParams) |->
            IF queryParams[i].name = name THEN Pair(name, value) ELSE queryParams[i]]
    ELSE Append(queryParams, Pair(name, value))

\* URLSearchParams.prototype.toString
RECURSIVE toString(_)
toString(queryParams) ==
  IF Len(queryParams) = 0 THEN ""
  ELSE LET first == UrlEncode(queryParams[1].name) \o "=" \o UrlEncode(queryParams[1].value)
       IN  IF Len(queryParams) = 1 THEN first
           ELSE first \o "&" \o toString(Tail(queryParams))

\* the parameter the loop of buildQueryParams sets for one entry, with the
\* test `if (value)` in place of the comparison with undefined and null
setEntry_Truthy(queryParams, entry) ==
  LET value == entry.items[1]
  IN  IF CASE value.k \in {"undefined", "null"} -> FALSE
              [] value.k = "string" -> value.s # ""
              [] value.k = "number" -> value.s # "0"
              [] value.k = "boolean" -> value.s = "true"
              [] OTHER -> TRUE
        THEN set(queryParams, entry.key, String(value))
        ELSE queryParams

\* the parameter set for one entry, with the elements joined by ";"
setEntry_Semicolons(queryParams, entry) ==
  LET value == entry.items[1]
  IN  IF value.k \notin {"undefined", "null"}
        THEN IF value.k = "array"
               THEN set(queryParams, entry.key, join(value.items, ";"))
               ELSE set(queryParams, entry.key, String(value))
        ELSE queryParams

\* if (value !== undefined && value !== null)
\*   Array.isArray(value) ? set(key, value.join(',')) : set(key, String(value))
setEntry(queryParams, entry) ==
  LET value == entry.items[1]
  IN  IF value.k \notin {"undefined", "null"}
        THEN IF value.k = "array"
               THEN set(queryParams, entry.key, join(value.items, ","))
               ELSE set(queryParams, entry.key, String(value))
        ELSE queryParams

\* for (const [key, value] of Object.entries(snakeParams)) ...
RECURSIVE setEntries(_, _)
setEntries(queryParams, entries) ==
  IF entries = <<>> THEN queryParams
  ELSE setEntries(setEntry(queryParams, Head(entries)), Tail(entries))

\* the URLSearchParams that buildQueryParams fills
queryParamsOf(params) == setEntries(<<>>, toSnakeCase(params).items)

buildQueryParams(params) == toString(queryParamsOf(params))

----------------------------------------------------------------------------
(* Request bodies *)

\* JSON.stringify(value) of a nested value: an entry whose value is
\* undefined is left out, undefined in an array is written null
RECURSIVE stringify(_)
RECURSIVE stringifyElements(_)
RECURSIVE stringifyEntries(_)

stringifyElements(items) ==
  IF Len(items) = 0 THEN ""
  ELSE LET first == IF items[1].k = "undefined" THEN "null" ELSE stringify(items[1])
       IN  IF Len(items) = 1 THEN first
           ELSE first \o "," \o stringifyElements(Tail(items))

stringifyEntries(entries) ==
  IF Len(entries) = 0 THEN ""
  ELSE IF entries[1].items[1].k = "undefined" THEN stringifyEntries(Tail(entries))
  ELSE LET first == Quote(entries[1].key) \o ":" \o stringify(entries[1].items[1])
           rest == stringifyEntries(Tail(entries))
       IN  IF rest = "" THEN first ELSE first \o "," \o rest

stringify(value) ==
  CASE value.k = "null" -> "null"
    [] value.k = "string" -> Quote(value.s)
    [] value.k = "array" -> "[" \o stringifyElements(value.items) \o "]"
    [] value.k = "object" -> "{" \o stringifyEntries(value.items) \o "}"
    [] OTHER -> value.s

----------------------------------------------------------------------------
(* Markdown rendering of nested values *)

\* the grave accent, which a TLA+ string cannot hold, is written as an
\* apostrophe; three of them fence a code block
Tick == "'"
Fence == Tick \o Tick \o Tick

\* lines.join(sep) of strings
RECURSIVE joinStrings(_, _)
joinStrings(lines, sep) ==
  IF Len(lines) = 0 THEN ""
  ELSE IF Len(lines) = 1 THEN lines[1]
  ELSE lines[1] \o sep \o joinStrings(Tail(lines), sep)

\* 'key' in obj, obj[key] and Object.keys(obj) of an object
Has(obj, key) == obj.k = "object" /\ \E i \in 1..Len(obj.items) : obj.items[i].key = key
Get(obj, key) ==
  IF Has(obj, key)
    THEN obj.items[CHOOSE i \in 1..Len(obj.items) : obj.items[i].key = key].items[1]
    ELSE TUndefined
ObjectKeys(obj) == [i \in 1..Len(obj.items) |-> obj.items[i].key]

\* value || fallback and value ?? fallback
IsTruthy(value) ==
  CASE value.k \in {"undefined", "null"} -> FALSE
    [] value.k = "string" -> value.s # ""
    [] value.k = "number" -> value.s \notin {"0", "NaN"}
    [] value.k = "boolean" -> value.s = "true"
    [] OTHER -> TRUE
OrElse(value, fallback) == IF IsTruthy(value) THEN value ELSE fallback
Coalesce(value, fallback) ==
  IF value.k \in {"undefined", "null"} THEN fallback ELSE value

\* value?.length
OptionalLength(value) ==
  CASE value.k = "array" -> TNumber(Len(value.items))
    [] value.k = "string" -> TNumber(Len(value.s))
    [] OTHER -> TUndefined

\* JSON.stringify(value, null, 2) of a defined value, at an indentation
RECURSIVE Spaces(_)
Spaces(n) == IF n = 0 THEN "" ELSE " " \o Spaces(n - 1)

RECURSIVE stringifyIndented(_, _)
RECURSIVE indentedElements(_, _)
RECURSIVE indentedEntries(_, _)

indentedElements(items, indent) ==
  IF Len(items) = 0 THEN <<>>
  ELSE <<Spaces(indent) \o (IF items[1].k = "undefined" THEN "null"
                            ELSE stringifyIndented(items[1], indent))>>
         \o indentedElements(Tail(items), indent)

indentedEntries(entries, indent) ==
  IF Len(entries) = 0 THEN <<>>
  ELSE IF entries[1].items[1].k = "undefined" THEN indentedEntries(Tail(entries), indent)
  ELSE <<Spaces(indent) \o Quote(entries[1].key) \o ": "
           \o stringifyIndented(entries[1].items[1], indent)>>
         \o indentedEntries(Tail(entries), indent)

stringifyIndented(value, indent) ==
  CASE value.k = "null" -> "null"
    [] value.k = "string" -> Quote(value.s)
    [] value.k = "array" ->
         LET inner == indentedElements(value.items, indent + 2)
         IN  IF inner = <<>> THEN "[]"
             ELSE "[\n" \o joinStrings(inner, ",\n") \o "\n" \o Spaces(indent) \o "]"
    [] value.k = "object" ->
         LET inner == indentedEntries(value.items, indent + 2)
         IN  IF inner = <<>> THEN "{}"
             ELSE "{\n" \o joinStrings(inner, ",\n") \o "\n" \o Spaces(indent) \o "}"
    [] OTHER -> value.s

\* str.charAt(0).toUpperCase() + str.slice(1)
capitalize(str) ==
  IF Len(str) = 0 THEN "" ELSE ToUpper(Char(str, 1)) \o SubSeq(str, 2, Len(str))

\* key.replace(/([A-Z])/g, ' $1')
RECURSIVE SpaceUpperFrom(_, _)
SpaceUpperFrom(key, i) ==
  IF i > Len(key) THEN ""
  ELSE (IF IsUpper(Char(key, i)) THEN " " \o Char(key, i) ELSE Char(key, i))
         \o SpaceUpperFrom(key, i + 1)

\* String.prototype.trim, for the blanks the model's strings hold
RECURSIVE TrimStart(_)
TrimStart(s) ==
  IF Len(s) > 0 /\ Char(s, 1) = " " THEN TrimStart(SubSeq(s, 2, Len(s))) ELSE s
RECURSIVE TrimEnd(_)
TrimEnd(s) ==
  IF Len(s) > 0 /\ Char(s, Len(s)) = " " THEN TrimEnd(SubSeq(s, 1, Len(s) - 1)) ELSE s
trim(s) == TrimEnd(TrimStart(s))

\* key.replace(/([A-Z])/g, ' $1').replace(/^./, (str) => str.toUpperCase()).trim()
formatKey(key) == trim(capitalize(SpaceUpperFrom(key, 1)))

\* entityType.replace(/s$/, '')
Singular(entityType) ==
  IF Len(entityType) > 0 /\ Char(entityType, Len(entityType)) = "s"
    THEN SubSeq(entityType, 1, Len(entityType) - 1)
    ELSE entityType

\* | ID | Title | Vendor | Status | Variants | and one row for each product
productRow(product) ==
  "| " \o String(Get(product, "id")) \o " | " \o String(Get(product, "title"))
    \o " | " \o String(OrElse(Get(product, "vendor"), TString("-")))
    \o " | " \o String(OrElse(Get(product, "status"), TString("-")))
    \o " | " \o String(OrElse(OptionalLength(Get(product, "variants")), TNumber(0)))
    \o " |"

formatProductsTable(products) ==
  joinStrings(<<"| ID | Title | Vendor | Status | Variants |", "|---|---|---|---|---|">>
                \o [i \in 1..Len(products) |-> productRow(products[i])], "\n")

\* | ID | Topic | Address | Format | and one row for each webhook
webhookRow(webhook) ==
  "| " \o String(Get(webhook, "id")) \o " | " \o String(Get(webhook, "topic"))
    \o " | " \o String(Get(webhook, "address"))
    \o " | " \o String(OrElse(Get(webhook, "format"), TString("-"))) \o " |"

formatWebhooksTable(webhooks) ==
  joinStrings(<<"| ID | Topic | Address | Format |", "|---|---|---|---|">>
                \o [i \in 1..Len(webhooks) |-> webhookRow(webhooks[i])], "\n")

\* ## Themes and | ID | Name | Role | Previewable |, one row for each theme
themeRow(theme) ==
  "| " \o String(Get(theme, "id")) \o " | " \o String(Get(theme, "name"))
    \o " | " \o String(Get(theme, "role"))
    \o " | " \o (IF IsTruthy(Get(theme, "previewable")) THEN "Yes" ELSE "No") \o " |"

formatThemesAsMarkdown(themes) ==
  joinStrings(<<"## Themes", "", "| ID | Name | Role | Previewable |", "|---|---|---|---|">>
                \o [i \in 1..Len(themes) |-> themeRow(themes[i])], "\n")

\* the widest generic table
MaxColumns == 5

\* Object.keys(first), every one of them
genericKeys_All(first) == ObjectKeys(first)

\* Object.keys(first).slice(0, 5)
genericKeys(first) ==
  LET keys == ObjectKeys(first)
  IN  SubSeq(keys, 1, IF Len(keys) < MaxColumns THEN Len(keys) ELSE MaxColumns)

\* `| ${keys.map((k) => String(record[k] ?? '-')).join(' | ')} |`
genericRow(keys, record) ==
  "| " \o joinStrings([i \in 1..Len(keys) |->
                         String(Coalesce(Get(record, keys[i]), TString("-")))], " | ")
    \o " |"

formatGenericTable(items) ==
  IF Len(items) = 0 THEN "_No items_"
  ELSE LET keys == genericKeys(items[1])
       IN  joinStrings(<<"| " \o joinStrings(keys, " | ") \o " |",
                         "|" \o joinStrings([i \in 1..Len(keys) |-> "---"], "|") \o "|">>
                         \o [i \in 1..Len(items) |-> genericRow(keys, items[i])], "\n")

formatArrayAsMarkdown(data, entityType) ==
  IF entityType = "themes" THEN formatThemesAsMarkdown(data.items)
  ELSE formatGenericTable(data.items)

\* the lines of one entry of a single object: none for null and undefined,
\* a label and a fenced JSON block for an object or an array, a label and
\* the value on one line otherwise
objectEntryLines_Flat(entry) ==
  LET value == entry.items[1]
  IN  IF value.k \in {"null", "undefined"} THEN <<>>
      ELSE <<"**" \o formatKey(entry.key) \o ":** " \o String(value)>>

objectEntryLines(entry) ==
  LET value == entry.items[1]
  IN  IF value.k \in {"null", "undefined"} THEN <<>>
      ELSE IF value.k \in {"object", "array"}
        THEN <<"**" \o formatKey(entry.key) \o ":**", Fence \o "json",
               stringifyIndented(value, 0), Fence>>
      ELSE <<"**" \o formatKey(entry.key) \o ":** " \o String(value)>>

RECURSIVE objectLines(_)
objectLines(entries) ==
  IF Len(entries) = 0 THEN <<>>
  ELSE objectEntryLines(entries[1]) \o objectLines(Tail(entries))

formatObjectAsMarkdown(data, entityType) ==
  joinStrings(<<"## " \o capitalize(Singular(entityType)), "">> \o objectLines(data.items),
              "\n")

\* typeof data === 'object' && data !== null && 'items' in data
\*   && Array.isArray(data.items)
isPaginatedResponse(data) ==
  data.k = "object" /\ Has(data, "items") /\ Get(data, "items").k = "array"

\* the switch on entityType, for a page that has items
itemsTable(items, entityType) ==
  CASE entityType = "products" -> formatProductsTable(items)
    [] entityType = "webhooks" -> formatWebhooksTable(items)
    [] OTHER -> formatGenericTable(items)

\* formatPaginatedAsMarkdown with the table written for an empty page too
formatPaginatedAsMarkdown_AlwaysTable(data, entityType) ==
  joinStrings(<<"## " \o capitalize(entityType), "",
                "**Showing:** " \o String(Get(data, "count")), "",
                itemsTable(Get(data, "items").items, entityType)>>, "\n")

formatPaginatedAsMarkdown(data, entityType) ==
  LET items == Get(data, "items").items
      head == <<"## " \o capitalize(entityType), "">>
      showing ==
        IF Get(data, "total").k # "undefined"
          THEN <<"**Total:** " \o String(Get(data, "total")) \o " | **Showing:** "
                   \o String(Get(data, "count"))>>
          ELSE <<"**Showing:** " \o String(Get(data, "count"))>>
      more ==
        IF IsTruthy(Get(data, "hasMore"))
          THEN <<"**More available:** Yes (cursor: " \o Tick
                   \o String(Get(data, "nextCursor")) \o Tick \o ")">>
          ELSE <<>>
      body == IF Len(items) = 0 THEN "_No items found._" ELSE itemsTable(items, entityType)
  IN  joinStrings(head \o showing \o more \o <<"", body>>, "\n")

\* formatAsMarkdown(data, entityType); of the eight tables of the switch
\* this model writes those of the products and of the webhooks
formatMarkdown(data, entityType) ==
  IF isPaginatedResponse(data) THEN formatPaginatedAsMarkdown(data, entityType)
  ELSE IF data.k = "array" THEN formatArrayAsMarkdown(data, entityType)
  ELSE IF data.k = "object" THEN formatObjectAsMarkdown(data, entityType)
  ELSE String(data)

----------------------------------------------------------------------------
(* JSON values.  One record shape for every value:                         *)
(*   k    the kind                                                         *)
(*   s    the text of a string, the name field of an entity                *)
(*   n    the value of a number, the id of an entity, the length of a list *)
(*   b    the value of a boolean                                           *)
(*   a    the elements of an array of strings, the value of the one entry  *)
(*        of an object                                                     *)
(*   has  whether an object has its entry, an entity its name field        *)
(*   key  the key of the one entry of an object                            *)

JV(k, s, n, b, a, has, key) ==
  [s |-> s, n |-> n, key |-> key, k |-> k, b |-> b, a |-> a, has |-> has]

JUndefined == JV("undefined", "", 0, FALSE, <<>>, FALSE, "")
JNull == JV("null", "", 0, FALSE, <<>>, FALSE, "")
JString(s) == JV("string", s, 0, FALSE, <<>>, FALSE, "")
JNumber(n) == JV("number", "", n, FALSE, <<>>, FALSE, "")
JBool(b) == JV("boolean", "", 0, b, <<>>, FALSE, "")
\* an array of strings
JArray(a) == JV("array", "", 0, FALSE, a, FALSE, "")
\* {} and {key: [a...]}
JEmptyObject == JV("object", "", 0, FALSE, <<>>, FALSE, "")
JObject(key, a) == JV("object", "", 0, FALSE, a, TRUE, key)
\* a resource record {id: n, name: s} / {id: n}
JEntity(n, s) == JV("entity", s, n, FALSE, <<>>, TRUE, "")
JEntityNoName(n) == JV("entity", "", n, FALSE, <<>>, FALSE, "")
\* an array of n resource records
JList(n) == JV("list", "", n, FALSE, <<>>, FALSE, "")

\* JavaScript truthiness, as in `if (errorJson.errors)` and `retryAfter ? :`
Truthy(v) ==
  CASE v.k = "undefined" -> FALSE
    [] v.k = "null" -> FALSE
    [] v.k = "string" -> v.s # ""
    [] v.k = "number" -> v.n # 0
    [] v.k = "boolean" -> v.b
    [] OTHER -> TRUE

RECURSIVE JoinQuoted(_)
JoinQuoted(a) ==
  IF Len(a) = 0 THEN ""
  ELSE IF Len(a) = 1 THEN Quote(a[1])
  ELSE Quote(a[1]) \o "," \o JoinQuoted(Tail(a))

RECURSIVE EntityList(_)
EntityList(n) ==
  IF n = 0 THEN ""
  ELSE IF n = 1 THEN "{\"id\":1}"
  ELSE EntityList(n - 1) \o ",{\"id\":" \o NatToString(n) \o "}"

\* JSON.stringify(v) without indentation, for a defined v (the strings of
\* the model hold no character that JSON escapes)
JSONstringify(v) ==
  CASE v.k = "null" -> "null"
    [] v.k = "string" -> Quote(v.s)
    [] v.k = "number" -> NumberToString(v.n)
    [] v.k = "boolean" -> IF v.b THEN "true" ELSE "false"
    [] v.k = "array" -> "[" \o JoinQuoted(v.a) \o "]"
    [] v.k = "object" ->
         IF v.has THEN "{" \o Quote(v.key) \o ":[" \o JoinQuoted(v.a) \o "]}"
         ELSE "{}"
    [] v.k = "entity" ->
         IF v.has
           THEN "{\"id\":" \o NumberToString(v.n) \o ",\"name\":" \o Quote(v.s) \o "}"
           ELSE "{\"id\":" \o NumberToString(v.n) \o "}"
    [] v.k = "list" -> "[" \o EntityList(v.n) \o "]"

----------------------------------------------------------------------------
(* Response bodies and parsed documents.  A body is text that does not     *)
(* parse as JSON, the document null, or an object of at most one entry.    *)

Doc(k, has, key, val) == [key |-> key, k |-> k, has |-> has, val |-> val]

InvalidBody == Doc("invalid", FALSE, "", JUndefined)
NullBody == Doc("null", FALSE, "", JUndefined)
EmptyObjectBody == Doc("object", FALSE, "", JUndefined)
ObjectBody(key, val) == Doc("object", TRUE, key, val)
\* the value `undefined` where a document is expected
UndefinedDoc == Doc("undefined", FALSE, "", JUndefined)

\* transformKeys(obj, snakeToCamel) on a value of at most one entry: null
\* and undefined are returned as they are, the key of an object is rewritten
transformEntry(v) ==
  IF v.k = "object" /\ v.has THEN [v EXCEPT !.key = snakeToCamel(v.key)] ELSE v

toCamelCase(d) ==
  IF d.k = "object" /\ d.has
    THEN Doc("object", TRUE, snakeToCamel(d.key), transformEntry(d.val))
    ELSE d

----------------------------------------------------------------------------
(* Errors.  name is the class, crm tells `instanceof CrmApiError`.          *)

Err(name, message, statusCode, retryAfter, crm, retryable) ==
  [name |-> name, message |-> message, statusCode |-> statusCode,
   retryAfter |-> retryAfter, crm |-> crm, retryable |-> retryable]

NoError == Err("", "", 0, Num(0), FALSE, FALSE)

\* new RateLimitError(message, retryAfterSeconds)
RateLimitError(message, retryAfterSeconds) ==
  Err("RateLimitError", message, 429, retryAfterSeconds, TRUE, TRUE)

\* new AuthenticationError(message)
AuthenticationError(message) ==
  Err("AuthenticationError", message, 401, Num(0), TRUE, FALSE)

\* new CrmApiError(message, statusCode)
CrmApiError(message, statusCode) ==
  Err("CrmApiError", message, statusCode, Num(0), TRUE, FALSE)

\* the errors the runtime raises: a rejected fetch, response.json() on text
\* that is no JSON, a property read on undefined or null
NetworkError == Err("TypeError", "fetch failed", 0, Num(0), FALSE, FALSE)
JsonSyntaxError == Err("SyntaxError", "Unexpected end of JSON input", 0, Num(0), FALSE, FALSE)
PropertyTypeError ==
  Err("TypeError", "Cannot read properties of undefined", 0, Num(0), FALSE, FALSE)

----------------------------------------------------------------------------
(* Request executor *)

\* what a call ends with: a thrown error or a returned document
Throw(e) == [data |-> UndefinedDoc, thrown |-> TRUE, err |-> e]
Return(d) == [data |-> d, thrown |-> FALSE, err |-> NoError]

\* response.headers.get(name): null when the header is absent
NoHeader == [value |-> "", present |-> FALSE]
Header(v) == [value |-> v, present |-> TRUE]

\* RetryAfterSeconds with the default applied to whatever does not parse:
\* parseInt(retryAfter ?? '', 10) || 60
RetryAfterSeconds_OrDefault(h) ==
  IF h.present /\ ~parseInt(h.value).nan /\ parseInt(h.value).v # 0
    THEN parseInt(h.value) ELSE Num(DefaultRetryAfter)

\* retryAfter ? parseInt(retryAfter, 10) : 60
RetryAfterSeconds(h) ==
  IF h.present /\ h.value # "" THEN parseInt(h.value) ELSE Num(DefaultRetryAfter)

\* response.ok
ResponseOk(status) == status >= 200 /\ status <= 299

\* ErrorMessage with the body never read
ErrorMessage_Unread(status, body) == "Shopify API error: " \o NumberToString(status)

\* ErrorMessage with typeof not consulted: every truthy errors is stringified
ErrorMessage_AlwaysStringified(status, body) ==
  LET generic == "Shopify API error: " \o NumberToString(status)
      errors == IF body.k = "object" /\ body.has /\ body.key = "errors"
                  THEN body.val ELSE JUndefined
  IN  IF body.k \in {"invalid", "null"} \/ ~Truthy(errors) THEN generic
      ELSE JSONstringify(errors)

\* errorJson.errors of the parsed error body; reading it from null throws,
\* which the catch around JSON.parse swallows like a parse failure
\* (lines 1624-1637)
ErrorMessage(status, body) ==
  LET generic == "Shopify API error: " \o NumberToString(status)
      errors == IF body.k = "object" /\ body.has /\ body.key = "errors"
                  THEN body.val ELSE JUndefined
  IN  IF body.k \in {"invalid", "null"} THEN generic
      ELSE IF ~Truthy(errors) THEN generic
      ELSE IF errors.k = "string" THEN errors.s
      ELSE JSONstringify(errors)

\* request with the !response.ok branch ahead of the 401, 403 and 404 branches
request_OkCheckFirst(resp) ==
  IF resp.status = 429
    THEN Throw(RateLimitError("Rate limit exceeded", RetryAfterSeconds(resp.retryAfter)))
  ELSE IF ~ResponseOk(resp.status)
    THEN Throw(CrmApiError(ErrorMessage(resp.status, resp.body), resp.status))
  ELSE IF resp.status = 204
    THEN Return(UndefinedDoc)
  ELSE IF resp.body.k = "invalid"
    THEN Throw(JsonSyntaxError)
  ELSE Return(toCamelCase(resp.body))

\* request without the 204 branch: every 2xx body goes to response.json()
request_No204(resp) ==
  IF resp.status = 429
    THEN Throw(RateLimitError("Rate limit exceeded", RetryAfterSeconds(resp.retryAfter)))
  ELSE IF resp.status = 401
    THEN Throw(AuthenticationError("Invalid access token"))
  ELSE IF resp.status = 403
    THEN Throw(AuthenticationError("Access denied. Check your access scopes."))
  ELSE IF resp.status = 404
    THEN Throw(CrmApiError("Resource not found", 404))
  ELSE IF ~ResponseOk(resp.status)
    THEN Throw(CrmApiError(ErrorMessage(resp.status, resp.body), resp.status))
  ELSE IF resp.body.k = "invalid"
    THEN Throw(JsonSyntaxError)
  ELSE Return(toCamelCase(resp.body))

\* ShopifyClientImpl.request, from the response on
request(resp) ==
  IF resp.status = 429
    THEN Throw(RateLimitError("Rate limit exceeded", RetryAfterSeconds(resp.retryAfter)))
  ELSE IF resp.status = 401
    THEN Throw(AuthenticationError("Invalid access token"))
  ELSE IF resp.status = 403
    THEN Throw(AuthenticationError("Access denied. Check your access scopes."))
  ELSE IF resp.status = 404
    THEN Throw(CrmApiError("Resource not found", 404))
  ELSE IF ~ResponseOk(resp.status)
    THEN Throw(CrmApiError(ErrorMessage(resp.status, resp.body), resp.status))
  ELSE IF resp.status = 204
    THEN Return(UndefinedDoc)
  ELSE IF resp.body.k = "invalid"
    THEN Throw(JsonSyntaxError)
  ELSE Return(toCamelCase(resp.body))

----------------------------------------------------------------------------
(* Client operations.  Each gets the outcome of its one request() call.    *)

\* the values a client operation returns and a tool serialises
Val(k, jv, count, hasMore, connected, message, details) ==
  [k |-> k, message |-> message, jv |-> jv, count |-> count,
   hasMore |-> hasMore, connected |-> connected, details |-> details,
   total |-> JUndefined, nextCursor |-> JUndefined]

UndefinedVal == Val("undefined", JUndefined, JUndefined, FALSE, FALSE, "", NoError)
PlainVal(jv) ==
  IF jv.k = "undefined" THEN UndefinedVal
  ELSE Val("value", jv, JUndefined, FALSE, FALSE, "", NoError)

Raise(e) == [val |-> UndefinedVal, thrown |-> TRUE, err |-> e]
Give(v) == [val |-> v, thrown |-> FALSE, err |-> NoError]

\* data.field: throws on undefined and null, undefined for a missing key
CanRead(d) == d.k \notin {"undefined", "null"}
Prop(d, field) ==
  IF d.k = "object" /\ d.has /\ d.key = field THEN d.val ELSE JUndefined

\* v.length, for a v that is neither undefined nor null
Length(v) ==
  CASE v.k = "list" -> JNumber(v.n)
    [] v.k = "array" -> JNumber(Len(v.a))
    [] v.k = "string" -> JNumber(Len(v.s))
    [] OTHER -> JUndefined

\* the limit argument: undefined, or a number
NoLimit == [v |-> 0, given |-> FALSE]
Limit(n) == [v |-> n, given |-> TRUE]

\* RequestedLimit with the argument ignored
RequestedLimit_Ignored(limit) == DefaultLimit

\* params?.limit || 50
RequestedLimit(limit) ==
  IF limit.given /\ limit.v # 0 THEN limit.v ELSE DefaultLimit

\* items.length === (params?.limit || 50)
HasMore(len, limit) == len.k = "number" /\ len.n = RequestedLimit(limit)

\* listOp with the requested limit as the count
listOp_CountIsLimit(o, field, limit) ==
  IF o.thrown THEN Raise(o.err)
  ELSE IF ~CanRead(o.data) THEN Raise(PropertyTypeError)
  ELSE LET items == Prop(o.data, field)
       IN  IF items.k \in {"undefined", "null"} THEN Raise(PropertyTypeError)
           ELSE Give(Val("paginated", items, JNumber(RequestedLimit(limit)),
                         HasMore(Length(items), limit), FALSE, "", NoError))

\* listProducts and the other list operations:
\*   { items: data.x, count: data.x.length, hasMore: data.x.length === (params?.limit || 50) }
listOp(o, field, limit) ==
  IF o.thrown THEN Raise(o.err)
  ELSE IF ~CanRead(o.data) THEN Raise(PropertyTypeError)
  ELSE LET items == Prop(o.data, field)
       IN  IF items.k \in {"undefined", "null"} THEN Raise(PropertyTypeError)
           ELSE Give(Val("paginated", items, Length(items),
                         HasMore(Length(items), limit), FALSE, "", NoError))

\* getProduct, getShop, createProduct, getProductCount, listTransactions, ...:
\* return data.x
getOp(o, field) ==
  IF o.thrown THEN Raise(o.err)
  ELSE IF ~CanRead(o.data) THEN Raise(PropertyTypeError)
  ELSE Give(PlainVal(Prop(o.data, field)))

\* sendDraftOrderInvoice: return data
sendOp(o) ==
  IF o.thrown THEN Raise(o.err)
  ELSE Give(PlainVal(CASE o.data.k = "undefined" -> JUndefined
                       [] o.data.k = "null" -> JNull
                       [] o.data.k = "object" /\ o.data.has -> JObject(o.data.key, <<>>)
                       [] OTHER -> JEmptyObject))

\* deleteOp that reads a field of the answer before it returns
deleteOp_ReadsBody(o) ==
  IF o.thrown THEN Raise(o.err)
  ELSE IF ~CanRead(o.data) THEN Raise(PropertyTypeError)
  ELSE Give(UndefinedVal)

\* deleteProduct, ...: await this.request(...) and return nothing
deleteOp(o) == IF o.thrown THEN Raise(o.err) ELSE Give(UndefinedVal)

\* testConnection without the try block: the errors of getShop pass through
testConnection_Unguarded(o) ==
  LET shop == getOp(o, "shop")
      name == IF shop.val.jv.k = "entity" /\ shop.val.jv.has
                THEN JString(shop.val.jv.s) ELSE JUndefined
  IN  IF shop.thrown THEN Raise(shop.err)
      ELSE IF shop.val.jv.k \in {"undefined", "null"} THEN Raise(PropertyTypeError)
      ELSE Give(Val("connection", name, JUndefined, FALSE, TRUE,
                    "Connected to " \o (IF name.k = "string" THEN name.s ELSE "undefined"),
                    NoError))

\* testConnection: getShop() in a try block; every error becomes a result
testConnection(o) ==
  LET shop == getOp(o, "shop")
      name == IF shop.val.jv.k = "entity" /\ shop.val.jv.has
                THEN JString(shop.val.jv.s) ELSE JUndefined
  IN  IF shop.thrown
        THEN Give(Val("connection", JUndefined, JUndefined, FALSE, FALSE,
                      shop.err.message, NoError))
      ELSE IF shop.val.jv.k \in {"undefined", "null"}
        THEN Give(Val("connection", JUndefined, JUndefined, FALSE, FALSE,
                      PropertyTypeError.message, NoError))
      ELSE Give(Val("connection", name, JUndefined, FALSE, TRUE,
                    "Connected to " \o (IF name.k = "string" THEN name.s ELSE "undefined"),
                    NoError))

----------------------------------------------------------------------------
(* Tool handlers *)

\* the text of a content item: a string in JSON or Markdown that renders
\* doc, or the value undefined
StringText(enc, doc) == [k |-> "string", enc |-> enc, doc |-> doc]
UndefinedText == [k |-> "undefined", enc |-> "json", doc |-> UndefinedVal]

\* JSON.stringify(data, null, 2): undefined for undefined, a string otherwise
stringifyPretty(data) ==
  IF data.k = "undefined" THEN UndefinedText ELSE StringText("json", data)

\* formatAsMarkdown always ends in String(data) or lines.join('\n')
formatAsMarkdown(data) == StringText("markdown", data)

Envelope(text, isError) ==
  [isError |-> isError, content |-> <<[text |-> text, type |-> "text"]>>]

NoEnvelope == [isError |-> "absent", content |-> <<>>]

formatResponse(data, format) ==
  IF format = "markdown" THEN Envelope(formatAsMarkdown(data), "absent")
  ELSE Envelope(stringifyPretty(data), "absent")

\* formatErrorForLogging(error)
formatErrorForLogging(error) == error

\* formatError without the isError flag
formatError_Unflagged(error) ==
  Envelope(stringifyPretty(Val("error", JUndefined, JUndefined, FALSE, FALSE,
                               "Error: " \o error.message, formatErrorForLogging(error))),
           "absent")

formatError(error) ==
  LET message == "Error: " \o error.message
                   \o (IF error.crm /\ error.retryable THEN " (retryable)" ELSE "")
  IN  Envelope(stringifyPretty(Val("error", JUndefined, JUndefined, FALSE, FALSE,
                                   message, formatErrorForLogging(error))),
               "true")

\* { success: true, message: ..., product } and { count }: an object literal
Literal(v) == Val("success", v.jv, JUndefined, FALSE, FALSE, "", NoError)

\* { items: transactions, count: transactions.length, hasMore: false }
flatEnvelope(items) ==
  Val("paginated", items.jv, Length(items.jv), FALSE, FALSE, "", NoError)

\* the client operation a tool calls
clientCall(c, o) ==
  CASE c.op = "list" -> listOp(o, c.field, c.limit)
    [] c.op = "send" -> sendOp(o)
    [] c.op = "delete" -> deleteOp(o)
    [] c.op = "testConnection" -> testConnection(o)
    [] OTHER -> getOp(o, c.field)

\* try { const r = await client.op(...); return <success> } catch (error) { return formatError(error) }
handler(c, r) ==
  IF r.thrown THEN formatError(r.err)
  ELSE CASE c.op \in {"list", "get"} -> formatResponse(r.val, c.format)
         [] c.op = "flatList" ->
              IF CanRead(r.val.jv) THEN formatResponse(flatEnvelope(r.val), c.format)
              ELSE formatError(PropertyTypeError)
         [] c.op = "testConnection" -> Envelope(stringifyPretty(r.val), "absent")
         [] OTHER -> Envelope(stringifyPretty(Literal(r.val)), "absent")

----------------------------------------------------------------------------
(* Tool invocations and the upstream's answers *)

Call(tool, op, field, limit, format) ==
  [field |-> field, limit |-> limit, format |-> format, op |-> op, tool |-> tool]

NoCall == Call("", "", "", NoLimit, "json")

Formats == {"json", "markdown"}

\* limit: z.number().int().min(1).max(250).default(50).optional()
Limits == {NoLimit} \cup {Limit(n) : n \in 1..MaxLimit}

Calls ==
  {Call("shopify_list_products", "list", "products", l, f) : l \in Limits, f \in Formats}
    \cup {Call("shopify_list_custom_collections", "list", "customCollections", l, f) :
            l \in Limits, f \in Formats}
    \cup {Call("shopify_get_product", "get", "product", NoLimit, f) : f \in Formats}
    \cup {Call("shopify_list_transactions", "flatList", "transactions", NoLimit, f) :
            f \in Formats}
    \cup {Call("shopify_create_product", "create", "product", NoLimit, "json"),
          Call("shopify_delete_product", "delete", "", NoLimit, "json"),
          Call("shopify_get_product_count", "count", "count", NoLimit, "json"),
          Call("shopify_test_connection", "testConnection", "shop", NoLimit, "json")}

\* the wrapper key of the operation's answer, in wire casing
WireKey(c) == camelToSnake(c.field)

HeaderAlphabet == {"3", "0", "-", ".", "x"}

RECURSIVE StringsUpTo(_)
StringsUpTo(n) ==
  IF n = 0 THEN {""}
  ELSE LET shorter == StringsUpTo(n - 1)
       IN  shorter \cup {s \o c : s \in shorter, c \in HeaderAlphabet}

RetryAfterHeaders ==
  {NoHeader} \cup {Header(v) : v \in StringsUpTo(MaxHeaderLen)}
    \cup {Header("120"), Header("Wed, 21 Oct 2026 07:28:00 GMT")}

ErrorsValues ==
  {JString(""), JString("foo"), JString("Not Found"), JNumber(0), JNumber(5),
   JBool(FALSE), JBool(TRUE), JNull, JArray(<<>>), JArray(<<"foo">>),
   JArray(<<"foo", "bar">>), JEmptyObject, JObject("title", <<"foo">>)}

ErrorBodies ==
  {InvalidBody, NullBody, EmptyObjectBody, ObjectBody("product", JEntity(1, "Shirt"))}
    \cup {ObjectBody("errors", v) : v \in ErrorsValues}

Payloads(c) ==
  CASE c.op = "list" -> {JList(n) : n \in 0..MaxItems}
    [] c.op = "flatList" -> {JList(n) : n \in 0..MaxFlat}
    [] c.op = "count" -> {JNumber(0), JNumber(3)}
    [] c.op = "testConnection" -> {JEntity(1, "My Store"), JEntityNoName(1)}
    [] c.op = "delete" -> {}
    [] OTHER -> {JEntity(1, "Shirt")}

SuccessBodies(c) ==
  {InvalidBody, NullBody, EmptyObjectBody, ObjectBody("errors", JString("foo")),
   ObjectBody(WireKey(c), JNull)}
    \cup {ObjectBody(WireKey(c), v) : v \in Payloads(c)}

Response(status, retryAfter, body) ==
  [body |-> body, retryAfter |-> retryAfter, status |-> status, arrived |-> "response"]

NoResponse == [body |-> InvalidBody, retryAfter |-> NoHeader, status |-> 0, arrived |-> "none"]
NoConnection == [body |-> InvalidBody, retryAfter |-> NoHeader, status |-> 0, arrived |-> "failure"]

FailureStatuses == {304, 400, 401, 403, 404, 422, 500, 503}
SuccessStatuses == {200, 201, 204}

\* every response the upstream may give to the request of call c
Upstream(c) ==
  {Response(429, h, b) : h \in RetryAfterHeaders,
                         b \in {InvalidBody, ObjectBody("errors", JString("foo"))}}
    \cup {Response(s, h, b) : s \in FailureStatuses, h \in {NoHeader, Header("30")},
                              b \in ErrorBodies}
    \cup {Response(s, NoHeader, b) : s \in SuccessStatuses, b \in SuccessBodies(c)}

----------------------------------------------------------------------------
(* Tenants, their clients and the requests the clients send *)

\* TenantCredentials
Credentials(shopDomain, accessToken, apiVersion) ==
  [shopDomain |-> shopDomain, accessToken |-> accessToken, apiVersion |-> apiVersion]

NoCredentials == Credentials("", "", "")

\* the credentials that arrive in the headers of /mcp requests
Tenants ==
  {Credentials("a.myshopify.com", "shpat_a", "2024-01"),
   Credentials("b.myshopify.com", "shpat_b", "2024-04")}

\* createShopifyClient(credentials): new ShopifyClientImpl(credentials),
\* whose only field is this.credentials
createShopifyClient(credentials) == [credentials |-> credentials]

NoClient == createShopifyClient(NoCredentials)

\* getBaseUrl with the API version fixed to the default
getBaseUrl_DefaultVersion(credentials) ==
  "https://" \o credentials.shopDomain \o "/admin/api/" \o "2024-01"

\* `https://${this.credentials.shopDomain}/admin/api/${this.credentials.apiVersion}`
getBaseUrl(credentials) ==
  "https://" \o credentials.shopDomain \o "/admin/api/" \o credentials.apiVersion

HeaderNames == {"X-Shopify-Access-Token", "Content-Type"}

getAuthHeaders(credentials) ==
  [h \in HeaderNames |->
     IF h = "X-Shopify-Access-Token" THEN credentials.accessToken ELSE "application/json"]

\* the options a client operation hands to request(): none of them sets
\* headers
RequestInit(method, body) ==
  [body |-> body, method |-> method, headers |-> [h \in {} |-> ""]]

\* { ...this.getAuthHeaders(), ...(options.headers || {}) }
mergeHeaders(auth, given) ==
  [h \in DOMAIN auth \cup DOMAIN given |-> IF h \in DOMAIN given THEN given[h] ELSE auth[h]]

\* what request() hands to fetch
fetchRequest(credentials, endpoint, options) ==
  [body |-> options.body, method |-> options.method,
   headers |-> mergeHeaders(getAuthHeaders(credentials), options.headers),
   url |-> getBaseUrl(credentials) \o endpoint]

NoFetch == [body |-> "", method |-> "", headers |-> [h \in {} |-> ""], url |-> ""]

\* a client operation: the tool that calls it, its method and path, and
\* the key it wraps its input in ("" where it sends no body)
Operation(tool, op, method, endpoint, wrapper, field) ==
  [field |-> field, op |-> op, tool |-> tool, method |-> method,
   endpoint |-> endpoint, wrapper |-> wrapper]

NoOperation == Operation("", "", "", "", "", "")

Operations ==
  {Operation("shopify_get_product", "get", "GET", "/products/1.json", "", "product"),
   Operation("shopify_list_products", "list", "GET", "/products.json?", "", "products"),
   Operation("shopify_delete_product", "delete", "DELETE", "/products/1.json", "", ""),
   Operation("shopify_create_product", "create", "POST", "/products.json",
             "product", "product"),
   Operation("shopify_update_product", "update", "PUT", "/products/1.json",
             "product", "product"),
   Operation("shopify_create_custom_collection", "create", "POST",
             "/custom_collections.json", "customCollection", "customCollection"),
   Operation("shopify_update_custom_collection", "update", "PUT",
             "/custom_collections/1.json", "customCollection", "customCollection"),
   Operation("shopify_create_smart_collection", "create", "POST",
             "/smart_collections.json", "smartCollection", "smartCollection"),
   Operation("shopify_update_inventory_item", "update", "PUT",
             "/inventory_items/1.json", "inventoryItem", "inventoryItem"),
   Operation("shopify_create_draft_order", "create", "POST",
             "/draft_orders.json", "draftOrder", "draftOrder"),
   Operation("shopify_update_draft_order", "update", "PUT",
             "/draft_orders/1.json", "draftOrder", "draftOrder"),
   Operation("shopify_send_draft_order_invoice", "send", "POST",
             "/draft_orders/1/send_invoice.json", "draftOrderInvoice", "draftOrderInvoice"),
   Operation("shopify_create_price_rule", "create", "POST",
             "/price_rules.json", "priceRule", "priceRule"),
   Operation("shopify_create_discount_code", "create", "POST",
             "/price_rules/1/discount_codes.json", "discountCode", "discountCode"),
   Operation("shopify_update_discount_code", "updateCode", "PUT",
             "/price_rules/1/discount_codes/1.json", "discountCode", "discountCode")}

SendsBody(o) == o.wrapper # ""

\* the arguments a tool hands to its client operation
ToolInputs(o) ==
  CASE o.op = "list" ->
         {TObject(<<Entry("limit", TNumber(2)), Entry("sinceId", TString("5"))>>)}
    [] o.op = "updateCode" -> {TString("SAVE10")}
    [] SendsBody(o) ->
         {TObject(<<Entry("bodyHtml", TString("x")),
                    Entry("lineItems",
                          TArray(<<TObject(<<Entry("variantId", TNumber(1))>>)>>))>>)}
    [] OTHER -> {TUndefined}

\* the value a create or update operation hands to JSON.stringify:
\*   { customCollection: toSnakeCase(input) }, { discountCode: { code } }
payloadOf(o, input) ==
  IF o.op = "updateCode"
    THEN TObject(<<Entry(o.wrapper, TObject(<<Entry("code", input)>>))>>)
    ELSE TObject(<<Entry(o.wrapper, toSnakeCase(input))>>)

\* the path and the options the operation hands to request()
endpointOf(o, input) ==
  IF o.op = "list" THEN o.endpoint \o buildQueryParams(input) ELSE o.endpoint

optionsOf(o, input) ==
  IF SendsBody(o) THEN RequestInit(o.method, stringify(payloadOf(o, input)))
  ELSE RequestInit(IF o.method = "GET" THEN "" ELSE o.method, "")

\* the tool call as the handlers above see it
callOf(o) ==
  Call(o.tool, o.op, o.field, IF o.op = "list" THEN Limit(2) ELSE NoLimit, "json")

\* what the upstream answers a Worker's request with
WorkerUpstream(o) ==
  {Response(200, NoHeader, ObjectBody(camelToSnake(o.field), JEntity(1, "Shirt"))),
   Response(422, NoHeader, ObjectBody("errors", JString("foo")))}

\* an incoming request: its method, the path of its URL and its three
\* credential headers ("" for a header that is not there)
CredentialHeaders(accessToken, shopDomain, apiVersion) ==
  [shopDomain |-> shopDomain, accessToken |-> accessToken, apiVersion |-> apiVersion]
HttpRequest(method, pathname, headers) ==
  [method |-> method, headers |-> headers, pathname |-> pathname]
NoRequest == HttpRequest("", "", CredentialHeaders("", "", ""))

\* the headers of tenant a (no version header), of tenant b, and headers
\* that lack the token, the domain, or all three
HeaderSets ==
  {CredentialHeaders("shpat_a", "a.myshopify.com", ""),
   CredentialHeaders("shpat_b", "b.myshopify.com", "2024-04"),
   CredentialHeaders("", "a.myshopify.com", ""),
   CredentialHeaders("shpat_a", "", ""),
   CredentialHeaders("", "", "")}

Requests ==
  {HttpRequest(method, pathname, headers) :
     method \in {"GET", "POST"}, pathname \in {"/health", "/mcp", "/sse", "/"},
     headers \in HeaderSets}

\* parseTenantCredentials(request): the three headers, the API version
\* 2024-01 when its header is not there
parseTenantCredentials(req) ==
  Credentials(req.headers.shopDomain, req.headers.accessToken,
              IF req.headers.apiVersion = "" THEN "2024-01"
              ELSE req.headers.apiVersion)

\* validateCredentials(credentials) returns (TRUE) or throws (FALSE): both
\* required headers must be there
validateCredentials(credentials) ==
  credentials.accessToken # "" /\ credentials.shopDomain # ""

\* the response of the Worker: its status, its Content-Type header ("" when
\* it sets none) and its body
HttpResponse(status, contentType, body) ==
  [body |-> body, status |-> status, contentType |-> contentType]
NoHttp == HttpResponse(0, "", "")

\* the rule of the fetch handler that takes the request, /mcp for any method
route_McpAnyMethod(req) ==
  IF req.pathname = "/health" THEN "health"
  ELSE IF req.pathname = "/mcp" THEN "mcp"
  ELSE IF req.pathname = "/sse" THEN "sse"
  ELSE "info"

\* the rule of the fetch handler that takes the request: the first of
\* /health, POST /mcp, /sse, and the default
route(req) ==
  IF req.pathname = "/health" THEN "health"
  ELSE IF req.pathname = "/mcp" /\ req.method = "POST" THEN "mcp"
  ELSE IF req.pathname = "/sse" THEN "sse"
  ELSE "info"

\* the response of each rule. The bodies of /health and /sse are written
\* out; the error document of the 401, the server-information document and
\* the response of the MCP handler are named.
respondTo(rule) ==
  CASE rule = "health" ->
         HttpResponse(200, "application/json",
                      "{\"status\":\"ok\",\"server\":\"shopify-mcp-server\"}")
    [] rule = "unauthorized" -> HttpResponse(401, "application/json", "Unauthorized")
    [] rule = "mcp" -> HttpResponse(200, "application/json", "tool result")
    [] rule = "sse" ->
         HttpResponse(501, "",
                      "SSE endpoint requires Durable Objects. Enable in wrangler.jsonc.")
    [] OTHER -> HttpResponse(200, "application/json", "server information")

\* one request being served
Serving(at, credentials, client, operation, payload, sent, answer, reply) ==
  [request |-> NoRequest, credentials |-> credentials, at |-> at,
   client |-> client, operation |-> operation, payload |-> payload,
   sent |-> sent, answer |-> answer, reply |-> reply, http |-> NoHttp]

NotServing ==
  Serving("idle", NoCredentials, NoClient, NoOperation, TUndefined, NoFetch,
          NoResponse, NoEnvelope)

\* the requests that can be in flight at once
Invocations == {"first", "second"}

NoWorker == [i \in Invocations |-> NotServing]

\* this.credentials of the first client now alive, whoever asks
credentialsOf_Shared(w, i) ==
  LET alive == {j \in Invocations : w[j].at # "idle"}
  IN  IF "first" \in alive THEN w["first"].client.credentials
      ELSE w[i].client.credentials

\* this.credentials, read by the client of invocation i
credentialsOf(w, i) == w[i].client.credentials

----------------------------------------------------------------------------
(* Order actions: closeOrder, openOrder and cancelOrder of one client *)

OrderActions == {"close", "open", "cancel"}

\* the order the actions are asked for
OrderId == 1

\* `/orders/${orderId}/close.json`, `/open.json`, `/cancel.json`
orderEndpoint(orderId, action) ==
  "/orders/" \o NatToString(orderId) \o "/" \o action \o ".json"

\* what the tools hand over besides the order id: nothing for close and
\* open, the rest of the arguments ({} when none was given) for cancel
OrderParams(action) ==
  IF action = "cancel"
    THEN {TObject(<<>>),
          TObject(<<Entry("reason", TString("fraud")), Entry("email", TBool(TRUE))>>)}
    ELSE {TUndefined}

\* { method: 'POST' } and
\* { method: 'POST', body: params ? JSON.stringify(toSnakeCase(params)) : undefined }
orderOptions(action, params) ==
  IF action = "cancel" /\ params.k # "undefined"
    THEN RequestInit("POST", stringify(toSnakeCase(params)))
    ELSE RequestInit("POST", "")

\* the tool call as the handlers see it: the operation returns data.order,
\* the tool { success: true, message, order }
orderCall(action) ==
  Call("shopify_" \o action \o "_order", "action", "order", NoLimit, "json")

\* the upstream's answers: the order, a refusal, no such order
OrderUpstream ==
  {Response(200, NoHeader, ObjectBody("order", JEntity(OrderId, "#1001"))),
   Response(422, NoHeader, ObjectBody("errors", JString("foo"))),
   Response(404, NoHeader, InvalidBody)}

\* one finished call: the action and whether the tool reported an error
Called(action, isError) == [isError |-> isError, action |-> action]

\* the client and what it was asked for so far
Ordering(at, client, log, action, sent, reply) ==
  [at |-> at, client |-> client, sent |-> sent, reply |-> reply,
   action |-> action, log |-> log]

NoOrders == Ordering("idle", NoClient, <<>>, "", NoFetch, NoEnvelope)

----------------------------------------------------------------------------
(* Markdown rendering: the value rendered, the entity type it is rendered  *)
(* as, and the text                                                        *)

Rendering(data, entityType, source, applied, text) ==
  [entityType |-> entityType, data |-> data, text |-> text,
   source |-> source, applied |-> applied]

NoRender == Rendering(TUndefined, "", "none", FALSE, "")

----------------------------------------------------------------------------
(* The state of one tool invocation *)

VARIABLES
  pc,          \* "idle", "waiting" for fetch, "done"
  call,        \* the tool invoked and its arguments
  requests,    \* HTTP requests issued by the invocation so far
  response,    \* what fetch ended with
  outcome,     \* what request() ended with
  result,      \* what the client operation ended with
  envelope,    \* what the tool handler returned
  page,        \* a pair handed to the pagination helpers, and their answers
  built,       \* the paginated response a pagination helper has just returned
  conv,        \* a key or a nested value handed to the case converter or
               \* the query builder, and what they made of it
  worker,      \* the /mcp requests the Worker is serving, each with its own
               \* server and client
  orders,      \* one client asked for order actions, one after another
  render       \* a value handed to the Markdown renderer, and its text

vars ==
  <<pc, call, requests, response, outcome, result, envelope, page, built, conv, worker,
    orders, render>>

\* what the helper functions leave behind, and the Worker's requests
helpers == <<page, built, conv, worker, orders, render>>

invocation == <<pc, call, requests, response, outcome, result, envelope>>

\* hasMoreItems(returnedCount, requestedLimit)
hasMoreItems(returnedCount, requestedLimit) == returnedCount >= requestedLimit

Page(returnedCount, requestedLimit, applied, helper, client) ==
  [client |-> client, applied |-> applied, returnedCount |-> returnedCount,
   requestedLimit |-> requestedLimit, helper |-> helper]

NoPage == Page(0, 0, FALSE, FALSE, FALSE)

\* the options argument of createPaginatedResponse
Options(total, hasMore, nextCursor) ==
  [hasMore |-> hasMore, total |-> total, nextCursor |-> nextCursor]

\* emptyPaginatedResponse(): { items: [], count: 0, hasMore: false }
emptyPaginatedResponse ==
  Val("paginated", JList(0), JNumber(0), FALSE, FALSE, "", NoError)

\* createPaginatedResponse(items, options = {}):
\*   { items, count: items.length, total: options.total,
\*     hasMore: options.hasMore ?? false, nextCursor: options.nextCursor }
createPaginatedResponse(items, options) ==
  [Val("paginated", items, Length(items),
       IF options.hasMore.k \in {"undefined", "null"} THEN FALSE ELSE options.hasMore.b,
       FALSE, "", NoError)
     EXCEPT !.total = options.total, !.nextCursor = options.nextCursor]

NoBuilt == UndefinedVal

NoConv ==
  [key |-> "", queryParams |-> <<>>, applied |-> FALSE, kind |-> "none",
   tree |-> TUndefined, snake |-> "", camel |-> "", back |-> "",
   toSnake |-> TUndefined, toCamel |-> TUndefined, query |-> ""]

\* the arrays and options the helpers are called with
PageItems == {JList(n) : n \in 0..MaxFlat}
PageOptions ==
  {Options(t, h, n) : t \in {JUndefined, JNumber(7)},
                      h \in {JUndefined, JBool(TRUE), JBool(FALSE)},
                      n \in {JUndefined, JString("abc")}}

Init ==
  /\ pc = "idle"
  /\ call = NoCall
  /\ requests = 0
  /\ response = NoResponse
  /\ outcome = Return(UndefinedDoc)
  /\ result = Give(UndefinedVal)
  /\ envelope = NoEnvelope
  /\ page = NoPage
  /\ built = NoBuilt
  /\ conv = NoConv
  /\ worker = NoWorker
  /\ orders = NoOrders
  /\ render = NoRender

\* the dispatcher calls a tool handler, which calls its client operation,
\* which calls request(), which calls fetch and awaits it
Invoke(c) ==
  /\ pc = "idle"
  /\ UNCHANGED helpers
  /\ pc' = "waiting"
  /\ call' = c
  /\ requests' = 1
  /\ response' = NoResponse
  /\ outcome' = Return(UndefinedDoc)
  /\ result' = Give(UndefinedVal)
  /\ envelope' = NoEnvelope

\* the rest of the invocation once fetch has ended with o
Complete(resp, o) ==
  /\ response' = resp
  /\ outcome' = o
  /\ result' = clientCall(call, o)
  /\ envelope' = handler(call, clientCall(call, o))
  /\ pc' = "done"
  /\ UNCHANGED <<call, requests, helpers>>

\* FetchResolve with a second attempt after a 429 or a 5xx
FetchResolve_Retry(resp) ==
  /\ pc = "waiting"
  /\ IF (resp.status = 429 \/ resp.status >= 500) /\ requests < 2
       THEN /\ requests' = requests + 1
            /\ UNCHANGED <<pc, call, response, outcome, result, envelope, helpers>>
       ELSE Complete(resp, request(resp))

\* fetch resolves with a response
FetchResolve(resp) ==
  /\ pc = "waiting"
  /\ Complete(resp, request(resp))

\* fetch rejects: the error passes through request() unchanged
FetchReject ==
  /\ pc = "waiting"
  /\ Complete(NoConnection, Throw(NetworkError))

\* the envelope goes back to the dispatcher; nothing of the invocation is kept
Reply ==
  /\ pc = "done"
  /\ UNCHANGED helpers
  /\ pc' = "idle"
  /\ call' = NoCall
  /\ requests' = 0
  /\ response' = NoResponse
  /\ outcome' = Return(UndefinedDoc)
  /\ result' = Give(UndefinedVal)
  /\ envelope' = NoEnvelope

\* a caller builds a page with createPaginatedResponse
CreatePage(items, options) ==
  /\ pc = "idle"
  /\ pc' = "helper"
  /\ built' = createPaginatedResponse(items, options)
  /\ UNCHANGED <<call, requests, response, outcome, result, envelope, page, conv, worker, orders, render>>

\* a caller builds a page with emptyPaginatedResponse
EmptyPage ==
  /\ pc = "idle"
  /\ pc' = "helper"
  /\ built' = emptyPaginatedResponse
  /\ UNCHANGED <<call, requests, response, outcome, result, envelope, page, conv, worker, orders, render>>

\* the helper's page goes back to its caller
HelperReturn ==
  /\ pc = "helper"
  /\ pc' = "idle"
  /\ built' = NoBuilt
  /\ UNCHANGED <<call, requests, response, outcome, result, envelope, page, conv, worker, orders, render>>

Next ==
  \/ \E c \in Calls : Invoke(c)
  \/ pc = "waiting" /\ \E resp \in Upstream(call) : FetchResolve(resp)
  \/ FetchReject
  \/ Reply
  \/ \E items \in PageItems, options \in PageOptions : CreatePage(items, options)
  \/ EmptyPage
  \/ HelperReturn

Spec == Init /\ [][Next]_vars

----------------------------------------------------------------------------
(* The pagination helper on its own: every pair of a returned count and a  *)
(* requested limit, handed to hasMoreItems and to the expression the       *)
(* client's list operations use                                            *)

PageInit ==
  /\ pc = "idle"
  /\ call = NoCall
  /\ requests = 0
  /\ response = NoResponse
  /\ outcome = Return(UndefinedDoc)
  /\ result = Give(UndefinedVal)
  /\ envelope = NoEnvelope
  /\ page \in {Page(c, l, FALSE, FALSE, FALSE) : c \in 0..MaxCount, l \in 1..MaxCount}
  /\ built = NoBuilt
  /\ conv = NoConv
  /\ worker = NoWorker
  /\ orders = NoOrders
  /\ render = NoRender

ApplyHasMore ==
  /\ ~page.applied
  /\ page' = [page EXCEPT
       !.applied = TRUE,
       !.helper = hasMoreItems(page.returnedCount, page.requestedLimit),
       !.client = HasMore(JNumber(page.returnedCount), Limit(page.requestedLimit))]
  /\ UNCHANGED <<invocation, built, conv, worker, orders, render>>

PageNext == ApplyHasMore

PageSpec == PageInit /\ [][PageNext]_vars

----------------------------------------------------------------------------
(* The case converter on its own: every key and every nested value of the  *)
(* sets below, handed to snakeToCamel, camelToSnake and transformKeys      *)

\* the field names of the entity and parameter types
Vocabulary ==
  {"acceptsMarketing", "acceptsMarketingUpdatedAt", "active", "address",
   "address1", "address2", "addresses", "adminGraphqlApiId",
   "allocationLimit", "allocationMethod", "alt", "amount", "amountSet",
   "apiVersion", "appliedDiscount", "assignedLocationId", "attachment",
   "attributionAppId", "authorization", "available", "availableAdjustment",
   "avsResultCode", "barcode", "billingAddress", "bodyHtml",
   "cancelReason", "cancelledAt", "checksum", "city", "closedAt", "code",
   "collectionId", "column", "company", "compareAtPrice", "completedAt",
   "condition", "confirmed", "contentType", "cost", "count", "country",
   "countryCode", "countryCodeOfOrigin", "countryHarmonizedSystemCodes",
   "countryName", "createdAt", "createdAtMax", "createdAtMin",
   "creditCardBin", "creditCardCompany", "creditCardNumber", "currency",
   "currencyCode", "custom", "customAttributes", "customer", "customerId",
   "customerSelection", "cvvResultCode", "default", "defaultAddress",
   "deliveryMethod", "description", "destination", "discountApplications",
   "discountCodes", "discountedPrice", "disjunctive", "domain", "email",
   "endsAt", "endsAtMax", "endsAtMin", "entitledCollectionIds",
   "entitledCountryIds", "entitledProductIds", "entitledQuantity",
   "entitledVariantIds", "errorCode", "fields", "financialStatus",
   "firstName", "format", "fulfillAt", "fulfillBy", "fulfillableQuantity",
   "fulfillmentHolds", "fulfillmentOrderId", "fulfillmentOrderLineItems",
   "fulfillmentService", "fulfillmentStatus", "fulfillments", "fullRefund",
   "gateway", "giftCard", "grams", "greaterThanOrEqualTo", "handle",
   "harmonizedSystemCode", "hasMore", "height", "ianaTimezone", "id",
   "ids", "image", "imageId", "images", "internationalDuties",
   "inventoryBehaviour", "inventoryItemId", "inventoryItemIds",
   "inventoryManagement", "inventoryPolicy", "inventoryQuantity",
   "invoiceSentAt", "invoiceUrl", "items", "key", "kind", "lastName",
   "legacy", "limit", "lineItem", "lineItemId", "lineItems",
   "lineItemsByFulfillmentOrder", "localizedCountryName",
   "localizedProvinceName", "locationId", "locationIds",
   "marketingOptInLevel", "message", "metafieldNamespaces", "methodType",
   "moneyFormat", "myshopifyDomain", "name", "namespace", "nextCursor",
   "nextPageInfo", "note", "noteAttributes", "notify", "notifyCustomer",
   "number", "numbers", "oldInventoryQuantity", "oncePerCustomer",
   "option1", "option2", "option3", "options", "order", "orderAdjustments",
   "orderId", "orderNumber", "ordersCount", "originAddress", "ownerId",
   "ownerResource", "parentId", "paymentDetails", "phone",
   "planDisplayName", "planName", "position", "prerequisiteAmount",
   "prerequisiteCollectionIds", "prerequisiteCustomerIds",
   "prerequisiteProductIds", "prerequisiteQuantity",
   "prerequisiteQuantityRange", "prerequisiteSavedSearchIds",
   "prerequisiteShippingPriceRange", "prerequisiteSubtotalRange",
   "prerequisiteToEntitlementPurchase",
   "prerequisiteToEntitlementQuantityRatio", "prerequisiteVariantIds",
   "presentmentMoney", "previewable", "price", "priceRuleId",
   "privateMetafieldNamespaces", "processedAt", "processedAtMax",
   "processedAtMin", "processing", "productId", "productType",
   "properties", "province", "provinceCode", "provinceCodeOfOrigin",
   "publicUrl", "published", "publishedAt", "publishedAtMax",
   "publishedAtMin", "publishedScope", "publishedStatus", "quantity",
   "query", "rate", "reason", "reasonNotes", "receipt", "refundId",
   "refundLineItems", "refunds", "relation", "requestStatus",
   "requiresShipping", "restock", "restockType", "role", "rules",
   "sendEmailInvite", "sendEmailWelcome", "sendFulfillmentReceipt",
   "sendReceipt", "service", "shipmentStatus", "shipping",
   "shippingAddress", "shippingLine", "shippingLines", "shopId",
   "shopMoney", "shopOwner", "sinceId", "size", "sku", "sortOrder",
   "sortValue", "source", "sourceKey", "sourceName", "src", "startsAt",
   "startsAtMax", "startsAtMin", "state", "status", "subtotal",
   "subtotalPrice", "subtotalSet", "supportedActions", "tags",
   "targetSelection", "targetType", "taxAmount", "taxAmountSet", "taxCode",
   "taxExempt", "taxExemptions", "taxLines", "taxable", "taxesIncluded",
   "templateSuffix", "test", "themeId", "themeStoreId", "timesUsed",
   "timezone", "title", "token", "topic", "total", "totalDiscount",
   "totalDiscounts", "totalPrice", "totalSpent", "totalTax", "totalTaxSet",
   "totalWeight", "tracked", "trackingCompany", "trackingInfo",
   "trackingNumber", "trackingNumbers", "trackingUrl", "trackingUrls",
   "transactions", "type", "updatedAt", "updatedAtMax", "updatedAtMin",
   "url", "urls", "usageCount", "usageLimit", "useCustomerDefaultAddress",
   "userId", "value", "valueType", "values", "variantId", "variantIds",
   "variantTitle", "variants", "vendor", "verifiedEmail", "weight",
   "weightUnit", "width", "zip"}

KeyAlphabet == {"a", "B", "_", "1"}

RECURSIVE KeysUpTo(_)
KeysUpTo(n) ==
  IF n = 0 THEN {""}
  ELSE LET shorter == KeysUpTo(n - 1)
       IN  shorter \cup {s \o c : s \in shorter, c \in KeyAlphabet}

Keys == Vocabulary \cup KeysUpTo(MaxKeyLen)

Scalars == {TNull, TString("x"), TNumber(0), TBool(FALSE)}

TreeKeys == {"a_b", "aB", "id"}

\* the entry lists of objects of at most n entries, no key twice
RECURSIVE EntriesUpTo(_, _)
EntriesUpTo(n, values) ==
  IF n = 0 THEN {<<>>}
  ELSE LET shorter == EntriesUpTo(n - 1, values)
           fresh == {x \in shorter \X TreeKeys :
                       \A i \in 1..Len(x[1]) : x[1][i].key # x[2]}
       IN  shorter \cup {Append(x[1], Entry(x[2], v)) : x \in fresh, v \in values}

FlatObjects == {TObject(es) : es \in EntriesUpTo(MaxEntries, Scalars)}

NestedParts == Scalars \cup {TObject(es) : es \in EntriesUpTo(MaxEntries, {TNull})}

Nested ==
  {TArray(<<>>)}
    \cup {TArray(<<v>>) : v \in NestedParts}
    \cup {TArray(<<v, TString("x")>>) : v \in NestedParts}
    \cup {TObject(<<Entry("line_items", TArray(<<v>>))>>) : v \in NestedParts}

\* a parsed response body, or the argument of a tool
Trees == {TUndefined} \cup Scalars \cup FlatObjects \cup Nested

KeyInput(key) == [NoConv EXCEPT !.kind = "key", !.key = key]
TreeInput(tree) == [NoConv EXCEPT !.kind = "tree", !.tree = tree]

ConverterInit ==
  /\ pc = "idle"
  /\ call = NoCall
  /\ requests = 0
  /\ response = NoResponse
  /\ outcome = Return(UndefinedDoc)
  /\ result = Give(UndefinedVal)
  /\ envelope = NoEnvelope
  /\ page = NoPage
  /\ built = NoBuilt
  /\ conv \in {KeyInput(key) : key \in Keys} \cup {TreeInput(tree) : tree \in Trees}
  /\ worker = NoWorker
  /\ orders = NoOrders
  /\ render = NoRender

\* snakeToCamel(key), camelToSnake(key), snakeToCamel(camelToSnake(key))
ConvertKey ==
  /\ conv.kind = "key"
  /\ ~conv.applied
  /\ conv' = [conv EXCEPT
       !.applied = TRUE,
       !.snake = camelToSnake(conv.key),
       !.camel = snakeToCamel(conv.key),
       !.back = snakeToCamel(camelToSnake(conv.key))]
  /\ UNCHANGED <<invocation, page, built, worker, orders, render>>

\* toSnakeCase(obj) and toCamelCase(obj)
TransformTree ==
  /\ conv.kind = "tree"
  /\ ~conv.applied
  /\ conv' = [conv EXCEPT
       !.applied = TRUE,
       !.toSnake = toSnakeCase(conv.tree),
       !.toCamel = transformKeys(conv.tree, "snakeToCamel")]
  /\ UNCHANGED <<invocation, page, built, worker, orders, render>>

ConverterNext == ConvertKey \/ TransformTree

ConverterSpec == ConverterInit /\ [][ConverterNext]_vars

----------------------------------------------------------------------------
(* The query builder on its own: every assignment of the values below to  *)
(* three options of the list operations                                    *)

OptionNames == <<"limit", "sinceId", "ids">>

OptionValues ==
  {TUndefined, TNull, TNumber(0), TNumber(2), TBool(FALSE), TString(""), TString("5"),
   TString("10,11"), TArray(<<>>), TArray(<<TString("10"), TString("11")>>)}

ParamsOf(values) ==
  TObject([i \in 1..Len(OptionNames) |-> Entry(OptionNames[i], values[i])])

ParamsInput(params) == [NoConv EXCEPT !.kind = "params", !.tree = params]

QueryInit ==
  /\ pc = "idle"
  /\ call = NoCall
  /\ requests = 0
  /\ response = NoResponse
  /\ outcome = Return(UndefinedDoc)
  /\ result = Give(UndefinedVal)
  /\ envelope = NoEnvelope
  /\ page = NoPage
  /\ built = NoBuilt
  /\ conv \in {ParamsInput(ParamsOf(values)) :
                 values \in [1..Len(OptionNames) -> OptionValues]}
  /\ worker = NoWorker
  /\ orders = NoOrders
  /\ render = NoRender

\* const query = this.buildQueryParams(params)
BuildQuery ==
  /\ conv.kind = "params"
  /\ ~conv.applied
  /\ conv' = [conv EXCEPT
       !.applied = TRUE,
       !.queryParams = queryParamsOf(conv.tree),
       !.query = buildQueryParams(conv.tree)]
  /\ UNCHANGED <<invocation, page, built, worker, orders, render>>

QueryNext == BuildQuery

QuerySpec == QueryInit /\ [][QueryNext]_vars

----------------------------------------------------------------------------
(* The Worker: /mcp requests of several tenants in flight at once.  Each   *)
(* request gets its own server and its own client, built from the          *)
(* credentials in its own headers.                                         *)

WorkerInit ==
  /\ pc = "idle"
  /\ call = NoCall
  /\ requests = 0
  /\ response = NoResponse
  /\ outcome = Return(UndefinedDoc)
  /\ result = Give(UndefinedVal)
  /\ envelope = NoEnvelope
  /\ page = NoPage
  /\ built = NoBuilt
  /\ conv = NoConv
  /\ worker = NoWorker
  /\ orders = NoOrders
  /\ render = NoRender

\* the fetch handler up to its first await or its return, with the
\* credentials never validated
Arrive_Unvalidated(i, req) ==
  /\ worker[i].at = "idle"
  /\ LET rule == route(req)
         credentials == parseTenantCredentials(req)
     IN  worker' = [worker EXCEPT ![i] =
           IF rule = "mcp"
             THEN [NotServing EXCEPT !.at = "created", !.request = req,
                                     !.credentials = credentials,
                                     !.client = createShopifyClient(credentials)]
             ELSE [NotServing EXCEPT !.at = "done", !.request = req,
                                     !.http = respondTo(rule)]]
  /\ UNCHANGED <<invocation, page, built, conv, orders, render>>

\* the fetch handler up to its first await or its return: /health, /sse
\* and the default rule answer at once; POST /mcp parses and validates the
\* credentials, answers 401 when they do not pass, and otherwise
\* createStatelessServer(credentials) builds the server and the client
Arrive(i, req) ==
  /\ worker[i].at = "idle"
  /\ LET rule == route(req)
         credentials == parseTenantCredentials(req)
     IN  worker' = [worker EXCEPT ![i] =
           IF rule = "mcp" /\ validateCredentials(credentials)
             THEN [NotServing EXCEPT !.at = "created", !.request = req,
                                     !.credentials = credentials,
                                     !.client = createShopifyClient(credentials)]
           ELSE IF rule = "mcp"
             THEN [NotServing EXCEPT !.at = "done", !.request = req,
                                     !.http = respondTo("unauthorized")]
             ELSE [NotServing EXCEPT !.at = "done", !.request = req,
                                     !.http = respondTo(rule)]]
  /\ UNCHANGED <<invocation, page, built, conv, orders, render>>

\* the MCP handler dispatches the tool call: the tool calls its client
\* operation, which calls request(), which calls fetch and awaits it
CallTool(i, o, input) ==
  /\ worker[i].at = "created"
  /\ worker' = [worker EXCEPT ![i] =
       [@ EXCEPT !.at = "waiting", !.operation = o,
                 !.payload = IF SendsBody(o) THEN payloadOf(o, input) ELSE TUndefined,
                 !.sent = fetchRequest(credentialsOf(worker, i), endpointOf(o, input),
                                       optionsOf(o, input))]]
  /\ UNCHANGED <<invocation, page, built, conv, orders, render>>

\* fetch resolves; the operation and the tool handler run to their end
Resolve(i, resp) ==
  /\ worker[i].at = "waiting"
  /\ LET c == callOf(worker[i].operation)
     IN  worker' = [worker EXCEPT ![i] =
           [@ EXCEPT !.at = "done", !.answer = resp,
                     !.reply = handler(c, clientCall(c, request(resp))),
                     !.http = respondTo("mcp")]]
  /\ UNCHANGED <<invocation, page, built, conv, orders, render>>

\* the response goes out; server and client are dropped
Respond(i) ==
  /\ worker[i].at = "done"
  /\ worker' = [worker EXCEPT ![i] = NotServing]
  /\ UNCHANGED <<invocation, page, built, conv, orders, render>>

WorkerNext ==
  \E i \in Invocations :
    \/ \E req \in Requests : Arrive(i, req)
    \/ \E o \in Operations : \E input \in ToolInputs(o) : CallTool(i, o, input)
    \/ worker[i].at = "waiting" /\ \E resp \in WorkerUpstream(worker[i].operation) :
                                      Resolve(i, resp)
    \/ Respond(i)

WorkerSpec == WorkerInit /\ [][WorkerNext]_vars

----------------------------------------------------------------------------
(* Order actions asked of one client, one after another.  The log is the   *)
(* history of the calls; the client has no field to keep it in.            *)

OrderInit ==
  /\ pc = "idle"
  /\ call = NoCall
  /\ requests = 0
  /\ response = NoResponse
  /\ outcome = Return(UndefinedDoc)
  /\ result = Give(UndefinedVal)
  /\ envelope = NoEnvelope
  /\ page = NoPage
  /\ built = NoBuilt
  /\ conv = NoConv
  /\ worker = NoWorker
  /\ orders \in {[NoOrders EXCEPT !.client = createShopifyClient(credentials)] :
                   credentials \in Tenants}
  /\ render = NoRender

\* a client that remembers the order it closed and refuses to close it again
OrderCall_ChecksOpen(action, params) ==
  /\ orders.at = "idle"
  /\ Len(orders.log) < MaxCalls
  /\ ~(action = "close" /\ Len(orders.log) > 0
         /\ orders.log[Len(orders.log)] = Called("close", FALSE))
  /\ orders' = [orders EXCEPT
       !.at = "waiting", !.action = action, !.reply = NoEnvelope,
       !.sent = fetchRequest(orders.client.credentials,
                             orderEndpoint(OrderId, action),
                             orderOptions(action, params))]
  /\ UNCHANGED <<invocation, page, built, conv, worker, render>>

\* the tool calls closeOrder, openOrder or cancelOrder, which calls
\* request(), which calls fetch and awaits it
OrderCall(action, params) ==
  /\ orders.at = "idle"
  /\ Len(orders.log) < MaxCalls
  /\ orders' = [orders EXCEPT
       !.at = "waiting", !.action = action, !.reply = NoEnvelope,
       !.sent = fetchRequest(orders.client.credentials,
                             orderEndpoint(OrderId, action),
                             orderOptions(action, params))]
  /\ UNCHANGED <<invocation, page, built, conv, worker, render>>

\* fetch resolves; the operation and the tool handler run to their end
OrderAnswer(resp) ==
  /\ orders.at = "waiting"
  /\ LET c == orderCall(orders.action)
         reply == handler(c, clientCall(c, request(resp)))
     IN  orders' = [orders EXCEPT
           !.at = "idle", !.reply = reply,
           !.log = Append(@, Called(orders.action, reply.isError = "true"))]
  /\ UNCHANGED <<invocation, page, built, conv, worker, render>>

OrderNext ==
  \/ \E action \in OrderActions : \E params \in OrderParams(action) :
       OrderCall(action, params)
  \/ \E resp \in OrderUpstream : OrderAnswer(resp)

OrderSpec == OrderInit /\ [][OrderNext]_vars

----------------------------------------------------------------------------
(* The Markdown renderer on the values the tools hand to formatResponse:   *)
(* pages of a list operation, pages with a total and a cursor, bare        *)
(* arrays, single entities and scalars.                                    *)

\* listProducts and the other list operations, on the items of the answer:
\*   { items, count: items.length, hasMore: items.length === (params?.limit || 50) }
listProducts(items, limit) ==
  TObject(<<Entry("items", TArray(items)),
            Entry("count", TNumber(Len(items))),
            Entry("hasMore", TBool(Len(items) = RequestedLimit(limit)))>>)

\* a PaginatedResponse with every field: items, count, total, hasMore, nextCursor
Paged(items, total, hasMore, nextCursor) ==
  TObject(<<Entry("items", TArray(items)),
            Entry("count", TNumber(Len(items))),
            Entry("total", total),
            Entry("hasMore", hasMore),
            Entry("nextCursor", nextCursor)>>)

Shirt ==
  TObject(<<Entry("id", TNumber(1)), Entry("title", TString("Shirt")),
            Entry("vendor", TString("Acme")), Entry("status", TString("active")),
            Entry("variants", TArray(<<TObject(<<Entry("id", TNumber(11))>>)>>))>>)
Hat == TObject(<<Entry("id", TNumber(2)), Entry("title", TString("Hat"))>>)
Hook ==
  TObject(<<Entry("id", TNumber(3)), Entry("topic", TString("orders/create")),
            Entry("address", TString("https://x.test/hook"))>>)
Wide ==
  TObject(<<Entry("a", TNumber(1)), Entry("b", TString("x")), Entry("c", TNull),
            Entry("d", TBool(FALSE)), Entry("e", TObject(<<Entry("z", TNumber(0))>>)),
            Entry("f", TString("six"))>>)
Narrow == TObject(<<Entry("b", TString("")), Entry("g", TNumber(0))>>)
Bare == TObject(<<>>)

RenderItems == {Shirt, Hat, Hook, Wide, Narrow, Bare}

RECURSIVE ItemLists(_)
ItemLists(n) ==
  IF n = 0 THEN {<<>>}
  ELSE LET shorter == ItemLists(n - 1)
       IN  shorter \cup {Append(items, item) : items \in shorter, item \in RenderItems}

\* the tags the tools pass with a list, and with one entity
ListTypes == {"products", "webhooks", "customCollections", "themes"}
EntityTypes == {"order", "products", "shop"}

Order ==
  TObject(<<Entry("id", TNumber(1)), Entry("orderNumber", TNumber(1001)),
            Entry("note", TNull), Entry("test", TBool(FALSE)),
            Entry("customer", TObject(<<Entry("firstName", TString("Ann")),
                                        Entry("tags", TArray(<<>>))>>)),
            Entry("lineItems",
                  TArray(<<TObject(<<Entry("variantId", TNumber(11)),
                                     Entry("quantity", TNumber(2))>>),
                           TObject(<<Entry("variantId", TNumber(12))>>)>>))>>)

Entities == {Order, Shirt, Wide, Bare}

RenderInputs ==
  {Rendering(listProducts(items, limit), type, "listed", FALSE, "") :
     items \in ItemLists(MaxRows), limit \in {NoLimit, Limit(1), Limit(2)},
     type \in ListTypes}
    \cup {Rendering(Paged(items, rest[1], rest[2], rest[3]), type, "paged", FALSE, "") :
            items \in ItemLists(MaxRows),
            rest \in {<<TNumber(7), TBool(TRUE), TString("abc")>>,
                      <<TUndefined, TBool(FALSE), TUndefined>>},
            type \in ListTypes}
    \cup {Rendering(TArray(items), type, "array", FALSE, "") :
            items \in ItemLists(MaxRows), type \in ListTypes}
    \cup {Rendering(entity, type, "entity", FALSE, "") :
            entity \in Entities, type \in EntityTypes}
    \cup {Rendering(scalar, "count", "scalar", FALSE, "") :
            scalar \in {TNumber(3), TString("ok"), TUndefined, TNull}}

RenderInit ==
  /\ pc = "idle"
  /\ call = NoCall
  /\ requests = 0
  /\ response = NoResponse
  /\ outcome = Return(UndefinedDoc)
  /\ result = Give(UndefinedVal)
  /\ envelope = NoEnvelope
  /\ page = NoPage
  /\ built = NoBuilt
  /\ conv = NoConv
  /\ worker = NoWorker
  /\ orders = NoOrders
  /\ render \in RenderInputs

\* formatResponse(data, 'markdown', entityType): the text of the content item
Render ==
  /\ ~render.applied
  /\ render' = [render EXCEPT
       !.applied = TRUE, !.text = formatMarkdown(render.data, render.entityType)]
  /\ UNCHANGED <<invocation, page, built, conv, worker, orders>>

RenderNext == Render

RenderSpec == RenderInit /\ [][RenderNext]_vars

----------------------------------------------------------------------------
(* Properties of the request executor *)

\* the invocation has ended and fetch had resolved with a response
Answered == pc = "done" /\ response.arrived = "response"

SpecialStatuses == {429, 401, 403, 404}

\* C1: every response status has one outcome, decided in the order 429,
\* 401, 403, 404, other non-2xx, 204, other 2xx; 401 and 403 raise
\* AuthenticationError and 404 raises the ApiError "Resource not found"
\* with status 404, whatever the body holds.
StatusMapping ==
  Answered =>
    LET s == response.status
        e == outcome.err
    IN  /\ s = 429 => outcome.thrown /\ e.name = "RateLimitError"
        /\ s = 401 => /\ outcome.thrown
                      /\ e.name = "AuthenticationError"
                      /\ e.message = "Invalid access token"
        /\ s = 403 => /\ outcome.thrown
                      /\ e.name = "AuthenticationError"
                      /\ e.message = "Access denied. Check your access scopes."
        /\ s = 404 => /\ outcome.thrown
                      /\ e.name = "CrmApiError"
                      /\ e.message = "Resource not found"
                      /\ e.statusCode = 404
        /\ (s \notin SpecialStatuses /\ (s < 200 \/ s > 299)) =>
             outcome.thrown /\ e.name = "CrmApiError" /\ e.statusCode = s
        /\ s = 204 => ~outcome.thrown /\ outcome.data.k = "undefined"
        /\ (s >= 200 /\ s <= 299 /\ s # 204) =>
             \/ outcome.thrown /\ e.name = "SyntaxError" /\ response.body.k = "invalid"
             \/ ~outcome.thrown /\ response.body.k # "invalid"
                  /\ outcome.data.k = response.body.k

\* a 404 whose body carries an errors string, and a 401 whose body does
StatusMappingWitness ==
  /\ Answered
  /\ response.status = 404
  /\ response.body = ObjectBody("errors", JString("foo"))
  /\ outcome.err.message = "Resource not found"

----------------------------------------------------------------------------
\* the header is an optionally negative digit run without a leading zero,
\* possibly followed by a fraction: -?[1-9][0-9]*(\.[0-9]+)? or 0(\.[0-9]+)?
DotAt(s) == IF \E i \in 1..Len(s) : Char(s, i) = "."
              THEN CHOOSE i \in 1..Len(s) :
                     Char(s, i) = "." /\ \A j \in 1..(i - 1) : Char(s, j) # "."
              ELSE Len(s) + 1

AllDigits(s) == Len(s) > 0 /\ \A i \in 1..Len(s) : Char(s, i) \in Digits

IsIntegerNumeral(s) ==
  LET neg == Len(s) > 0 /\ Char(s, 1) = "-"
      d == IF neg THEN SubSeq(s, 2, Len(s)) ELSE s
  IN  AllDigits(d) /\ (Len(d) = 1 \/ Char(d, 1) # "0") /\ ~(neg /\ d = "0")

IsNumeral(s) ==
  /\ IsIntegerNumeral(SubSeq(s, 1, DotAt(s) - 1))
  /\ DotAt(s) <= Len(s) => AllDigits(SubSeq(s, DotAt(s) + 1, Len(s)))

\* the integer n is the number the numeral s denotes
Denotes(s, n) ==
  /\ NumberToString(n) = SubSeq(s, 1, DotAt(s) - 1)
  /\ \A i \in (DotAt(s) + 1)..Len(s) : Char(s, i) = "0"

RateLimited == Answered /\ response.status = 429

\* C2 as stated: the wait hint of a 429 is the numeric value of the
\* Retry-After header when the header is present, and 60 when it is absent.
RetryAfterIsHeaderValue ==
  RateLimited =>
    LET h == response.retryAfter
        hint == outcome.err.retryAfter
    IN  /\ ~h.present => hint = Num(DefaultRetryAfter)
        /\ (h.present /\ IsNumeral(h.value)) => ~hint.nan /\ Denotes(h.value, hint.v)

\* the header begins with an optionally signed digit
StartsWithInteger(s) ==
  \/ Len(s) >= 1 /\ Char(s, 1) \in Digits
  \/ Len(s) >= 2 /\ Char(s, 1) \in {"-", "+"} /\ Char(s, 2) \in Digits

\* the text of n is how s begins, and no digit follows it
LeadingIntegerIs(s, n) ==
  LET f == NumberToString(n)
  IN  /\ Len(f) <= Len(s)
      /\ SubSeq(s, 1, Len(f)) = f
      /\ Len(s) > Len(f) => Char(s, Len(f) + 1) \notin Digits

\* the leading integer of s is written without a leading zero or plus sign
CanonicalStart(s) ==
  LET i == IF Char(s, 1) = "-" THEN 2 ELSE 1
  IN  /\ Char(s, 1) # "+"
      /\ Char(s, i) = "0" => /\ i = 1
                             /\ (Len(s) = 1 \/ Char(s, 2) \notin Digits)

\* C2, amended: the wait hint of a 429 is 60 when the Retry-After header is
\* absent or empty; otherwise it is the integer the header's text begins
\* with, whatever follows it (30 for "30", 3 for "3.3"), and NaN when the
\* header does not begin with an integer.
RetryAfterIsLeadingInteger ==
  RateLimited =>
    LET h == response.retryAfter
        hint == outcome.err.retryAfter
    IN  /\ outcome.thrown /\ outcome.err.name = "RateLimitError"
        /\ (~h.present \/ h.value = "") => hint = Num(DefaultRetryAfter)
        /\ (h.present /\ h.value # "" /\ ~StartsWithInteger(h.value)) => hint.nan
        /\ (h.present /\ StartsWithInteger(h.value)) =>
             /\ ~hint.nan
             /\ CanonicalStart(h.value) => LeadingIntegerIs(h.value, hint.v)

\* a 429 whose Retry-After has a fraction
RetryAfterWitness ==
  /\ RateLimited
  /\ response.retryAfter = Header("3.3")
  /\ outcome.err.retryAfter = Num(3)

----------------------------------------------------------------------------
\* the body is {"errors": s} for a string s
ErrorsIsString == response.body.key = "errors" /\ response.body.has
                    /\ response.body.val.k = "string"

NonSuccess == Answered /\ (response.status < 200 \/ response.status > 299)

\* C3 as stated: every non-2xx response with the body {"errors": s}, s a
\* string, raises an error whose message contains s.
ErrorsStringInMessage ==
  (NonSuccess /\ ErrorsIsString) =>
    outcome.thrown /\ Contains(outcome.err.message, response.body.val.s)

\* C3, amended: every non-2xx response other than 429, 401, 403 and 404
\* with the body {"errors": s}, s a string, raises an error whose message
\* contains s.
ErrorsStringInGenericMessage ==
  (NonSuccess /\ response.status \notin SpecialStatuses /\ ErrorsIsString) =>
    outcome.thrown /\ Contains(outcome.err.message, response.body.val.s)

\* a 422 with the body {"errors": "foo"}
ErrorsStringWitness ==
  /\ NonSuccess
  /\ response.status = 422
  /\ response.body = ObjectBody("errors", JString("foo"))
  /\ outcome.err.message = "foo"

----------------------------------------------------------------------------
\* the bodies' errors field, and the JSON text of the structured ones
HasErrors == response.body.k = "object" /\ response.body.has
               /\ response.body.key = "errors"

StructuredText(v) ==
  CASE v = JArray(<<>>) -> "[]"
    [] v = JArray(<<"foo">>) -> "[\"foo\"]"
    [] v = JArray(<<"foo", "bar">>) -> "[\"foo\",\"bar\"]"
    [] v = JEmptyObject -> "{}"
    [] v = JObject("title", <<"foo">>) -> "{\"title\":[\"foo\"]}"
    [] v = JNumber(5) -> "5"
    [] v = JBool(TRUE) -> "true"

StatusText(s) ==
  CASE s = 304 -> "304" [] s = 400 -> "400" [] s = 422 -> "422"
    [] s = 500 -> "500" [] s = 503 -> "503"

IsGeneric(message, s) == message = "Shopify API error: " \o StatusText(s)

OtherFailure == NonSuccess /\ response.status \notin SpecialStatuses

\* C4 as stated: a non-2xx status other than 429, 401, 403 and 404 raises
\* an ApiError with that status whose message is the errors field when it
\* is a string, its JSON text when it is structured, and the generic
\* message with the status when the body is no JSON or has no errors field.
ApiErrorMessage ==
  OtherFailure =>
    LET e == outcome.err
        v == response.body.val
    IN  /\ outcome.thrown /\ e.name = "CrmApiError" /\ e.statusCode = response.status
        /\ (HasErrors /\ v.k = "string") => e.message = v.s
        /\ (HasErrors /\ v.k \in {"array", "object"}) => e.message = StructuredText(v)
        /\ ~HasErrors => IsGeneric(e.message, response.status)

\* C4, amended: ... whose message is the errors field when it is a
\* non-empty string, its JSON text when it is any other truthy value (an
\* array, an object, a non-zero number, true), and the generic message with
\* the status when the body is no JSON, has no errors field, or has a falsy
\* one (the empty string, 0, false, null).
ApiErrorMessageTruthy ==
  OtherFailure =>
    LET e == outcome.err
        v == response.body.val
        falsy == v \in {JString(""), JNumber(0), JBool(FALSE), JNull}
    IN  /\ outcome.thrown /\ e.name = "CrmApiError" /\ e.statusCode = response.status
        /\ (HasErrors /\ v.k = "string" /\ v.s # "") => e.message = v.s
        /\ (HasErrors /\ v.k # "string" /\ ~falsy) => e.message = StructuredText(v)
        /\ (~HasErrors \/ falsy) => IsGeneric(e.message, response.status)

\* a 422 whose errors field is an object
ApiErrorMessageWitness ==
  /\ OtherFailure
  /\ response.status = 422
  /\ response.body = ObjectBody("errors", JObject("title", <<"foo">>))
  /\ outcome.err.message = "{\"title\":[\"foo\"]}"

----------------------------------------------------------------------------
\* C5: a 204 makes request() return the no-content sentinel without
\* parsing the body, and that result differs from the result of a 200 whose
\* body is {}.
NoContentSentinel ==
  /\ (Answered /\ response.status = 204) =>
       ~outcome.thrown /\ outcome.data = UndefinedDoc
  /\ (Answered /\ response.status = 200 /\ response.body = EmptyObjectBody) =>
       ~outcome.thrown /\ outcome.data = EmptyObjectBody
         /\ outcome.data # UndefinedDoc

\* a 204 whose body is no JSON
NoContentWitness ==
  /\ Answered
  /\ response.status = 204
  /\ response.body = InvalidBody
  /\ outcome = Return(UndefinedDoc)

----------------------------------------------------------------------------
\* C6: an invocation issues one HTTP request and ends with one outcome;
\* no second request follows a 429, a 5xx or a network failure.
OneRequestPerInvocation ==
  /\ pc = "idle" => requests = 0
  /\ pc \in {"waiting", "done"} => requests = 1
  /\ pc = "done" => response.arrived # "none" /\ envelope # NoEnvelope

\* an invocation that ended on a 503
OneRequestWitness ==
  /\ Answered
  /\ response.status = 503
  /\ requests = 1
  /\ outcome.thrown

----------------------------------------------------------------------------
(* Properties of the tool handlers *)

WellFormed(env) ==
  /\ Len(env.content) = 1
  /\ env.content[1].type = "text"
  /\ env.content[1].text.k = "string"
  /\ env.isError \in {"absent", "true"}

\* C7: every tool handler returns a well-formed envelope
\* {content: [{type: "text", text: <string>}], isError?} for every outcome
\* of the client call, in both formats.
EnvelopeWellFormed == pc = "done" => WellFormed(envelope)

----------------------------------------------------------------------------
UpstreamFailed ==
  \/ response.arrived = "failure"
  \/ response.arrived = "response" /\ (response.status < 200 \/ response.status > 299)

IsErrorEnvelope(env) ==
  /\ env.isError = "true"
  /\ Len(env.content) = 1
  /\ env.content[1].text.k = "string"
  /\ env.content[1].text.enc = "json"
  /\ env.content[1].text.doc.k = "error"
  /\ Contains(env.content[1].text.doc.message, outcome.err.message)

\* C8 as stated: for every tool, a failed upstream request gives isError =
\* true and the text {error, details}; a response without isError is
\* returned only when the upstream request succeeded.
FailureIsFlagged ==
  pc = "done" =>
    /\ UpstreamFailed => IsErrorEnvelope(envelope)
    /\ envelope.isError = "absent" => ~UpstreamFailed

\* C8, amended: for every tool other than shopify_test_connection, a
\* failed upstream request gives isError = true and the text {error,
\* details}, and a response without isError is returned only when the
\* upstream request succeeded; shopify_test_connection answers a failed
\* upstream request without isError, with the text {connected: false,
\* message}.
FailureIsFlaggedExceptTestConnection ==
  pc = "done" =>
    IF call.tool = "shopify_test_connection"
      THEN UpstreamFailed =>
             /\ envelope.isError = "absent"
             /\ envelope.content[1].text.k = "string"
             /\ envelope.content[1].text.doc.k = "connection"
             /\ ~envelope.content[1].text.doc.connected
             /\ envelope.content[1].text.doc.message = outcome.err.message
      ELSE /\ UpstreamFailed => IsErrorEnvelope(envelope)
           /\ envelope.isError = "absent" => ~UpstreamFailed

\* a list tool whose request ended on a 500
FailureIsFlaggedWitness ==
  /\ Answered
  /\ call.tool = "shopify_list_products"
  /\ response.status = 500
  /\ envelope.isError = "true"

----------------------------------------------------------------------------
(* Properties of pagination *)

\* a list operation returned an envelope around an upstream array
Listed ==
  /\ pc = "done"
  /\ call.op = "list"
  /\ ~result.thrown
  /\ result.val.k = "paginated"
  /\ result.val.jv.k = "list"

\* C9: a list operation called with limit L (50 when none is given)
\* returns hasMore = true when the upstream array has L items and hasMore =
\* false when it has fewer.
HasMoreAtLimit ==
  Listed =>
    LET L == IF call.limit.given THEN call.limit.v ELSE 50
        n == result.val.jv.n
    IN  /\ n = L => result.val.hasMore
        /\ n < L => ~result.val.hasMore

\* a list of custom collections, limit 3, three items
HasMoreWitness ==
  /\ Listed
  /\ call.tool = "shopify_list_custom_collections"
  /\ call.limit = Limit(3)
  /\ result.val.jv.n = 3
  /\ result.val.hasMore

\* C10: for every pair (returnedCount, requestedLimit), the list
\* operations and hasMoreItems report more items exactly when
\* returnedCount = requestedLimit, and the two agree.
HasMoreOnlyAtLimit ==
  page.applied =>
    /\ page.helper = (page.returnedCount = page.requestedLimit)
    /\ page.client = (page.returnedCount = page.requestedLimit)
    /\ page.helper = page.client

----------------------------------------------------------------------------
(* Paginated responses *)

\* the number of elements of an items value, as JavaScript's length gives it
ItemCount(items) ==
  CASE items.k = "list" -> JNumber(items.n)
    [] items.k = "array" -> JNumber(Len(items.a))
    [] items.k = "string" -> JNumber(Len(items.s))
    [] OTHER -> JUndefined

CountMatches(v) == v.k = "paginated" => v.count = ItemCount(v.jv)

\* the paginated response inside the envelope, if the envelope renders one
Rendered ==
  IF envelope # NoEnvelope /\ envelope.content[1].text.k = "string"
    THEN envelope.content[1].text.doc ELSE UndefinedVal

\* C11: every paginated response produced, by the client's list
\* operations, by createPaginatedResponse and emptyPaginatedResponse, and
\* by the tools that wrap a flat array, has count equal to the number of
\* its items.
CountIsItemsLength ==
  /\ CountMatches(result.val)
  /\ CountMatches(Rendered)
  /\ CountMatches(built)

\* a flat array of two transactions wrapped by its tool
CountIsItemsLengthWitness ==
  /\ pc = "done"
  /\ call.op = "flatList"
  /\ Rendered.k = "paginated"
  /\ Rendered.jv = JList(MaxFlat)
  /\ Rendered.count = JNumber(MaxFlat)

----------------------------------------------------------------------------
(* Properties of the case converter *)

\* a and b have the same structure: the same kind, sequences of the same
\* length with elements of the same structure in the same order, mappings
\* of the same number of entries with values of the same structure in the
\* same order, equal scalars
RECURSIVE SameStructure(_, _)
SameStructure(a, b) ==
  /\ a.k = b.k
  /\ CASE a.k = "array" ->
             /\ Len(a.items) = Len(b.items)
             /\ \A i \in 1..Len(a.items) : SameStructure(a.items[i], b.items[i])
        [] a.k = "object" ->
             /\ Len(a.items) = Len(b.items)
             /\ \A i \in 1..Len(a.items) :
                  SameStructure(a.items[i].items[1], b.items[i].items[1])
        [] OTHER -> a = b

Transformed == conv.kind = "tree" /\ conv.applied

\* C12: for both key transforms transformKeys returns a copy of the same
\* structure: sequences keep length and order, mappings keep their number
\* of entries, scalars are unchanged.
StructurePreserved ==
  Transformed =>
    /\ SameStructure(conv.tree, conv.toSnake)
    /\ SameStructure(conv.tree, conv.toCamel)

Converted == conv.kind = "key" /\ conv.applied

\* C13: snakeToCamel(camelToSnake(key)) = key for every key of the schema
\* vocabulary.
VocabularyRoundTrip ==
  Converted /\ conv.key \in Vocabulary => conv.back = conv.key

\* a vocabulary key with a digit, converted and back
VocabularyRoundTripWitness ==
  /\ Converted
  /\ conv.key = "address1"
  /\ conv.snake = "address1"
  /\ conv.back = "address1"

----------------------------------------------------------------------------
\* the upper-case letters of key at the positions from..i
UpperBefore(key, i, from) ==
  Cardinality({j \in from..i : IsUpper(Char(key, j))})

\* snake is key with "_" put before each upper-case letter at a position
\* >= from, that letter in lower case, and every other character kept
SnakeOf(key, snake, from) ==
  /\ Len(snake) = Len(key) + UpperBefore(key, Len(key), from)
  /\ \A i \in 1..Len(key) :
       LET p == i + UpperBefore(key, i, from)
       IN  IF i >= from /\ IsUpper(Char(key, i))
             THEN Char(snake, p - 1) = "_" /\ Char(snake, p) = ToLower(Char(key, i))
             ELSE Char(snake, p) = Char(key, i)

\* C14 as stated: camelToSnake puts an underscore before each internal
\* upper-case letter and lower-cases it, changes nothing else, and puts no
\* underscore in front of the first character.
CamelToSnakeInternalLetters == Converted => SnakeOf(conv.key, conv.snake, 2)

\* C14: camelToSnake puts an underscore before every upper-case letter, the
\* first character included, and lower-cases it; every other character is
\* kept.
CamelToSnakeEveryLetter == Converted => SnakeOf(conv.key, conv.snake, 1)

\* a key that starts with an upper-case letter
CamelToSnakeWitness ==
  /\ Converted
  /\ conv.key = "BaB"
  /\ conv.snake = "_ba_b"

----------------------------------------------------------------------------
IsLetterOrDigit(c) == IsLower(c) \/ IsUpper(c) \/ c \in Digits

\* the underscore at position i of key is followed by a character that
\* Follows accepts
Removed(key, i, Follows(_)) ==
  i >= 1 /\ i < Len(key) /\ Char(key, i) = "_" /\ Follows(Char(key, i + 1))

RemovedBefore(key, i, Follows(_)) ==
  Cardinality({j \in 1..i : Removed(key, j, Follows)})

\* camel is key without the underscores that a character Follows accepts
\* comes after, that character in upper case, every other character kept
CamelOf(key, camel, Follows(_)) ==
  /\ Len(camel) = Len(key) - RemovedBefore(key, Len(key), Follows)
  /\ \A i \in 1..Len(key) :
       ~Removed(key, i, Follows) =>
         Char(camel, i - RemovedBefore(key, i, Follows)) =
           IF Removed(key, i - 1, Follows) THEN ToUpper(Char(key, i)) ELSE Char(key, i)

\* C15 as stated: snakeToCamel removes each underscore that a letter or a
\* digit follows and upper-cases that character, so that no such
\* underscore is left in the result.
SnakeToCamelLettersAndDigits == Converted => CamelOf(conv.key, conv.camel, IsLetterOrDigit)

\* C15: snakeToCamel removes each underscore that a lower-case letter
\* follows and upper-cases that letter; an underscore before a digit, an
\* upper-case letter, another underscore or the end of the key is kept.
SnakeToCamelLowerLetters == Converted => CamelOf(conv.key, conv.camel, IsLower)

\* a key with an underscore before a letter and one before a digit
SnakeToCamelWitness ==
  /\ Converted
  /\ conv.key = "_a_1"
  /\ conv.camel = "A_1"

----------------------------------------------------------------------------
(* Properties of the query builder *)

\* the text of s between the separators sep (one character), in order
RECURSIVE SplitFrom(_, _, _, _)
SplitFrom(s, sep, i, start) ==
  IF i > Len(s) THEN <<SubSeq(s, start, Len(s))>>
  ELSE IF Char(s, i) = sep
    THEN <<SubSeq(s, start, i - 1)>> \o SplitFrom(s, sep, i + 1, i + 1)
    ELSE SplitFrom(s, sep, i + 1, start)

Split(s, sep) == SplitFrom(s, sep, 1, 1)

\* the name=value parts of a query string
Parameters(query) ==
  IF query = "" THEN {}
  ELSE {Split(query, "&")[i] : i \in 1..Len(Split(query, "&"))}

\* the wire name of each option
WireName(option) ==
  CASE option = "limit" -> "limit"
    [] option = "sinceId" -> "since_id"
    [] option = "ids" -> "ids"

Queried == conv.kind = "params" /\ conv.applied

Option(i) == conv.tree.items[i]
Emitted(name) == {j \in 1..Len(conv.queryParams) : conv.queryParams[j].name = name}

\* C16: a parameter is emitted for an option exactly if its value is
\* neither undefined nor null; 0, false and "" are emitted as "0", "false"
\* and ""; every emitted name is the wire name of an option; no option
\* gives more than one parameter.
OmissionRule ==
  Queried =>
    /\ \A i \in 1..Len(conv.tree.items) :
         LET name == WireName(Option(i).key)
             value == Option(i).items[1]
         IN  /\ (Emitted(name) # {}) <=> (value.k \notin {"undefined", "null"})
             /\ Cardinality(Emitted(name)) <= 1
             /\ value = TNumber(0) => (name \o "=0") \in Parameters(conv.query)
             /\ value = TBool(FALSE) => (name \o "=false") \in Parameters(conv.query)
             /\ value = TString("") => (name \o "=") \in Parameters(conv.query)
    /\ \A j \in 1..Len(conv.queryParams) :
         \E i \in 1..Len(conv.tree.items) :
           conv.queryParams[j].name = WireName(Option(i).key)
    /\ Cardinality(Parameters(conv.query)) = Len(conv.queryParams)

\* limit 0 and ids "" are emitted, sinceId null is not
OmissionRuleWitness ==
  /\ Queried
  /\ conv.tree = ParamsOf(<<TNumber(0), TNull, TString("")>>)
  /\ conv.query = "limit=0&ids="

Example ==
  ParamsOf(<<TNumber(2), TString("5"), TArray(<<TString("10"), TString("11")>>)>>)

\* the elements of an array of strings, as texts
Elements(array) == [i \in 1..Len(array.items) |-> array.items[i].s]

ArrayOption(i) == Option(i).items[1].k = "array"

\* the one parameter of option i holds the elements, separated by commas
CommaJoined(i) ==
  \E j \in 1..Len(conv.queryParams) :
    /\ Emitted(WireName(Option(i).key)) = {j}
    /\ IF Option(i).items[1].items = <<>> THEN conv.queryParams[j].value = ""
       ELSE Split(conv.queryParams[j].value, ",") = Elements(Option(i).items[1])

\* C17 as stated: an array-valued option gives one parameter whose value
\* is its elements joined with commas, and the query string for
\* {limit: 2, sinceId: "5", ids: ["10", "11"]} is made of exactly
\* limit=2, since_id=5 and ids=10,11.
ArrayParameterVerbatim ==
  Queried =>
    /\ \A i \in 1..Len(conv.tree.items) : ArrayOption(i) => CommaJoined(i)
    /\ conv.tree = Example =>
         Parameters(conv.query) = {"limit=2", "since_id=5", "ids=10,11"}

\* C17: an array-valued option gives one parameter whose value is its
\* elements joined with commas; in the query string the commas are
\* percent-encoded, so the example gives limit=2, since_id=5 and
\* ids=10%2C11.
ArrayParameterEncoded ==
  Queried =>
    /\ \A i \in 1..Len(conv.tree.items) : ArrayOption(i) => CommaJoined(i)
    /\ conv.tree = Example =>
         Parameters(conv.query) = {"limit=2", "since_id=5", "ids=10%2C11"}

\* the example of the query builder
ArrayParameterWitness ==
  /\ Queried
  /\ conv.tree = Example
  /\ conv.queryParams[3] = Pair("ids", "10,11")
  /\ conv.query = "limit=2&since_id=5&ids=10%2C11"

----------------------------------------------------------------------------
(* Properties of the requests the client sends *)

\* the request went to the MCP handler and its tool call has sent its
\* upstream request
InFlight(i) ==
  \/ worker[i].at = "waiting"
  \/ worker[i].at = "done" /\ worker[i].client # NoClient

\* the singular name of the resource of a create or update operation, as
\* the Admin REST API writes it
ResourceName(o) ==
  CASE o.tool \in {"shopify_create_product", "shopify_update_product"} -> "product"
    [] o.tool \in {"shopify_create_custom_collection",
                   "shopify_update_custom_collection"} -> "custom_collection"
    [] o.tool = "shopify_create_smart_collection" -> "smart_collection"
    [] o.tool = "shopify_update_inventory_item" -> "inventory_item"
    [] o.tool \in {"shopify_create_draft_order", "shopify_update_draft_order"} ->
         "draft_order"
    [] o.tool = "shopify_send_draft_order_invoice" -> "draft_order_invoice"
    [] o.tool = "shopify_create_price_rule" -> "price_rule"
    [] o.tool \in {"shopify_create_discount_code", "shopify_update_discount_code"} ->
         "discount_code"

HasUpper(key) == \E p \in 1..Len(key) : IsUpper(Char(key, p))

\* no key anywhere in value holds an upper-case letter
RECURSIVE WireCased(_)
WireCased(value) ==
  CASE value.k = "array" -> \A p \in 1..Len(value.items) : WireCased(value.items[p])
    [] value.k = "object" ->
         \A p \in 1..Len(value.items) :
           ~HasUpper(value.items[p].key) /\ WireCased(value.items[p].items[1])
    [] OTHER -> TRUE

StartsWith(s, prefix) == Len(s) >= Len(prefix) /\ SubSeq(s, 1, Len(prefix)) = prefix

\* C18: the body of every create and update request is an object of one
\* entry whose key is the singular name of the resource in wire casing,
\* for the multi-word resources as for the single-word ones, and every
\* nested key is wire-cased.
BodyWrapperWireCased ==
  \A i \in Invocations :
    InFlight(i) /\ SendsBody(worker[i].operation) =>
      /\ worker[i].payload.k = "object"
      /\ Len(worker[i].payload.items) = 1
      /\ worker[i].payload.items[1].key = ResourceName(worker[i].operation)
      /\ WireCased(worker[i].payload.items[1].items[1])
      /\ StartsWith(worker[i].sent.body,
                    "{" \o Quote(ResourceName(worker[i].operation)) \o ":")

\* the path each operation asks for, with the query of the list operation
PathOf(o) ==
  IF o.op = "list" THEN "/products.json?limit=2&since_id=5" ELSE o.endpoint

\* the request was built from the credentials c
BuiltFrom(sent, c, o) ==
  /\ sent.url = "https://" \o c.shopDomain \o "/admin/api/" \o c.apiVersion \o PathOf(o)
  /\ DOMAIN sent.headers = {"X-Shopify-Access-Token", "Content-Type"}
  /\ sent.headers["X-Shopify-Access-Token"] = c.accessToken
  /\ sent.headers["Content-Type"] = "application/json"

\* C19: every request goes to https://{shopDomain}/admin/api/{apiVersion}
\* followed by the path, with the access token in X-Shopify-Access-Token
\* and Content-Type application/json, all from the credentials the client
\* was constructed with.
RequestUsesClientCredentials ==
  \A i \in Invocations :
    InFlight(i) =>
      BuiltFrom(worker[i].sent, worker[i].client.credentials, worker[i].operation)

\* a request of the tenant whose API version is not the default one
RequestUsesClientCredentialsWitness ==
  \E i \in Invocations :
    /\ worker[i].at = "waiting"
    /\ worker[i].operation.tool = "shopify_create_product"
    /\ worker[i].sent.url = "https://b.myshopify.com/admin/api/2024-04/products.json"
    /\ worker[i].sent.headers["X-Shopify-Access-Token"] = "shpat_b"

\* C20: whatever the interleaving of the /mcp requests in flight, the
\* upstream request of each is built from the credentials in the headers
\* of that request, and carries nothing of the credentials of another
\* request that is being served.
TenantIsolation ==
  \A i \in Invocations :
    InFlight(i) =>
      /\ BuiltFrom(worker[i].sent, worker[i].credentials, worker[i].operation)
      /\ \A j \in Invocations :
           worker[j].at # "idle" /\ worker[j].credentials # worker[i].credentials =>
             /\ worker[i].sent.headers["X-Shopify-Access-Token"] #
                  worker[j].credentials.accessToken
             /\ ~StartsWith(worker[i].sent.url,
                            "https://" \o worker[j].credentials.shopDomain \o "/")

\* two tenants with a request in flight each, the second sent while the
\* first was waiting
TenantIsolationWitness ==
  /\ worker["first"].at = "waiting"
  /\ worker["second"].at = "waiting"
  /\ worker["first"].credentials.shopDomain = "a.myshopify.com"
  /\ worker["second"].credentials.shopDomain = "b.myshopify.com"
  /\ worker["first"].sent.headers["X-Shopify-Access-Token"] = "shpat_a"
  /\ worker["second"].sent.headers["X-Shopify-Access-Token"] = "shpat_b"

----------------------------------------------------------------------------
(* Properties of the order actions *)

\* the request a call of the action sends, whatever was called before
OrderRequest(action, sent) ==
  /\ sent.method = "POST"
  /\ sent.url = getBaseUrl(orders.client.credentials)
                  \o "/orders/" \o NatToString(OrderId) \o "/" \o action \o ".json"
  /\ sent.headers["X-Shopify-Access-Token"] = orders.client.credentials.accessToken

\* C21: no local precondition checking.  After any sequence of closeOrder,
\* openOrder and cancelOrder calls on one order, whatever their results,
\* every one of the three calls can be made, and the call that is in flight
\* has sent its POST to /orders/{id}/{action}.json; the client holds
\* nothing but its credentials.
NoLocalPreconditions ==
  /\ DOMAIN orders.client = {"credentials"}
  /\ orders.at = "waiting" => OrderRequest(orders.action, orders.sent)
  /\ (orders.at = "idle" /\ Len(orders.log) < MaxCalls) =>
       \A action \in OrderActions :
         ENABLED (\E params \in OrderParams(action) : OrderCall(action, params))

\* a close is in flight after a close that succeeded, and after a cancel
\* that the upstream refused
NoLocalPreconditionsWitness ==
  /\ orders.at = "waiting"
  /\ orders.action = "close"
  /\ Len(orders.log) = 2
  /\ orders.log[1] = Called("cancel", TRUE)
  /\ orders.log[2] = Called("close", FALSE)
  /\ orders.sent.url = "https://a.myshopify.com/admin/api/2024-01/orders/1/close.json"

----------------------------------------------------------------------------
(* Properties of the Markdown renderer *)

\* the lines of the rendered text, and those of them that belong to a table
RECURSIVE LinesFrom(_, _)
LinesFrom(text, start) ==
  LET breaks == {i \in start..Len(text) : Char(text, i) = "\n"}
  IN  IF breaks = {} THEN <<SubSeq(text, start, Len(text))>>
      ELSE LET next == CHOOSE i \in breaks : \A j \in breaks : i <= j
           IN  <<SubSeq(text, start, next - 1)>> \o LinesFrom(text, next + 1)

TextLines == LinesFrom(render.text, 1)
IsTableLine(line) == Len(line) > 0 /\ Char(line, 1) = "|"
TableLines == SelectSeq(TextLines, IsTableLine)
HasLine(line) == \E i \in 1..Len(TextLines) : TextLines[i] = line

\* the items of the page or of the array that was rendered
RenderedItems ==
  IF render.source = "array" THEN render.data.items
  ELSE Get(render.data, "items").items

RenderedPage == render.applied /\ render.source \in {"listed", "paged"}

\* C22: the Markdown rendering of a paginated response with no items, for
\* every entity type (products included), has the line _No items found._
\* and no line of a table, neither header nor row.
EmptyPageSaysNoItems ==
  (RenderedPage /\ RenderedItems = <<>>) =>
    /\ HasLine("_No items found._")
    /\ TableLines = <<>>

\* an empty products page of a list operation, rendered
EmptyPageSaysNoItemsWitness ==
  /\ RenderedPage
  /\ render.source = "listed"
  /\ render.entityType = "products"
  /\ RenderedItems = <<>>
  /\ render.text = "## Products\n\n**Showing:** 0\n\n_No items found._"

\* the tags that have a table of their own
KnownTags ==
  {"products", "orders", "customers", "draftOrders", "fulfillments", "locations",
   "webhooks", "priceRules"}

\* a list rendered under a tag that has no table of its own
GenericRendered ==
  /\ render.applied
  /\ render.entityType \notin KnownTags
  /\ \/ render.source \in {"listed", "paged"}
     \/ render.source = "array" /\ render.entityType # "themes"

\* the cells of a table line: the texts between its bars, without the
\* blank on either side
Cells(line) ==
  IF line = "|  |" THEN <<>>
  ELSE LET parts == Split(line, "|")
       IN  [j \in 1..(Len(parts) - 2) |-> SubSeq(parts[j + 1], 2, Len(parts[j + 1]) - 1)]

\* the first five keys of an item, or all of them when it has fewer
FirstKeys(item) ==
  LET n == IF Len(item.items) < 5 THEN Len(item.items) ELSE 5
  IN  [j \in 1..n |-> item.items[j].key]

MissingOrNull(item, key) ==
  \A j \in 1..Len(item.items) :
    item.items[j].key = key => item.items[j].items[1].k \in {"null", "undefined"}

\* C23: a non-empty list under an unknown tag is rendered as a table whose
\* columns are the first at most 5 keys of the first item, with one row for
\* each item and the placeholder - in every cell whose key the item lacks
\* or holds as null; an empty list is rendered as a no-items marker, with
\* no table.
GenericTableShape ==
  GenericRendered =>
    IF RenderedItems = <<>>
      THEN /\ HasLine("_No items found._") \/ HasLine("_No items_")
           /\ TableLines = <<>>
      ELSE LET columns == FirstKeys(RenderedItems[1])
           IN  /\ Len(columns) <= 5
               /\ Len(TableLines) = 2 + Len(RenderedItems)
               /\ Cells(TableLines[1]) = columns
               /\ \A i \in 1..Len(RenderedItems) :
                    LET cells == Cells(TableLines[2 + i])
                    IN  /\ Len(cells) = Len(columns)
                        /\ \A j \in 1..Len(columns) :
                             MissingOrNull(RenderedItems[i], columns[j]) => cells[j] = "-"

\* a page of two items under an unknown tag: the first has six keys, one
\* of them null, the second lacks four of the five columns
GenericTableShapeWitness ==
  /\ GenericRendered
  /\ render.source = "listed"
  /\ RenderedItems = <<Wide, Narrow>>
  /\ TableLines = <<"| a | b | c | d | e |", "|---|---|---|---|---|",
                    "| 1 | x | - | false | [object Object] |",
                    "| - |  | - | - | - |">>

\* a single entity, rendered
EntityRendered == render.applied /\ render.source = "entity"

Fields == render.data.items
IsComposite(value) == value.k \in {"object", "array"}
IsAbsent(value) == value.k \in {"null", "undefined"}

LabelLines == SelectSeq(TextLines, LAMBDA line : StartsWith(line, "**"))
Label(entry) == "**" \o formatKey(entry.key) \o ":**"

\* the field has its label on a line of its own, followed by a fenced
\* JSON block that opens the value
Embedded(entry) ==
  \E i \in 1..(Len(TextLines) - 3) :
    /\ TextLines[i] = Label(entry)
    /\ TextLines[i + 1] = Fence \o "json"
    /\ TextLines[i + 2] \in {"[", "{", "[]", "{}"}
    /\ \E j \in (i + 2)..Len(TextLines) : TextLines[j] = Fence

\* the heading, and the object- and array-valued fields as blocks
HeadingAndBlocks ==
  /\ Len(TextLines) >= 2
  /\ StartsWith(TextLines[1], "## ")
  /\ TextLines[2] = ""
  /\ \A f \in 1..Len(Fields) :
       IsComposite(Fields[f].items[1]) =>
         /\ Embedded(Fields[f])
         /\ ~HasLine(Label(Fields[f]) \o " " \o String(Fields[f].items[1]))

\* C24 as stated: a heading, then one labelled line for every top-level
\* field of the entity, the object- and array-valued fields as embedded
\* pretty-printed JSON blocks.
EntityLinePerField ==
  EntityRendered =>
    /\ HeadingAndBlocks
    /\ Len(LabelLines) = Len(Fields)

\* C24: a heading, a blank line, then one labelled line for every
\* top-level field whose value is neither null nor undefined and none for
\* the others; a scalar field has its value on that line, an object- or
\* array-valued field is followed by its value as a fenced pretty-printed
\* JSON block.
EntityLinePerPresentField ==
  EntityRendered =>
    /\ HeadingAndBlocks
    /\ Len(LabelLines) = Cardinality({f \in 1..Len(Fields) : ~IsAbsent(Fields[f].items[1])})
    /\ \A f \in 1..Len(Fields) :
         LET value == Fields[f].items[1]
         IN  /\ IsAbsent(value) =>
                  \A i \in 1..Len(LabelLines) :
                    ~StartsWith(LabelLines[i], Label(Fields[f]))
             /\ (~IsAbsent(value) /\ ~IsComposite(value)) =>
                  HasLine(Label(Fields[f]) \o " " \o String(value))

\* an order with a null note, a customer and two line items
EntityLinePerPresentFieldWitness ==
  /\ EntityRendered
  /\ render.data = Order
  /\ render.entityType = "order"
  /\ Len(Fields) = 6
  /\ Len(LabelLines) = 5
  /\ Embedded(Entry("lineItems", Get(Order, "lineItems")))
  /\ HasLine("    \"variantId\": 11,")

\* C28: when the Markdown rendering of the page of a list operation has a
\* More available line, the cursor it shows is the page's nextCursor, a
\* defined value, and not the text undefined.
CursorShownIsDefined ==
  (render.applied /\ render.source = "listed"
     /\ \E i \in 1..Len(TextLines) : StartsWith(TextLines[i], "**More available:**")) =>
    /\ Get(render.data, "nextCursor").k # "undefined"
    /\ ~HasLine("**More available:** Yes (cursor: " \o Tick \o "undefined" \o Tick \o ")")

----------------------------------------------------------------------------
(* Properties of the connection test, the delete operations and the wait   *)
(* hint                                                                    *)

TestedConnection == pc = "done" /\ call.op = "testConnection"

\* the one request of getShop was answered 2xx with a body whose shop
\* field is there
ShopReceived ==
  /\ response.arrived = "response"
  /\ ResponseOk(response.status) /\ response.status # 204
  /\ response.body.k = "object" /\ response.body.has /\ response.body.key = "shop"
  /\ response.body.val.k \notin {"undefined", "null"}

\* C26: testConnection never throws.  Its result has connected = true,
\* with the name of the shop, exactly when its one getShop request was
\* answered with the shop; for every failure of that request (a typed
\* error, a network error, a 2xx answer without the shop) it has
\* connected = false and a message.
ConnectionResult ==
  TestedConnection =>
    /\ requests = 1
    /\ ~result.thrown
    /\ result.val.k = "connection"
    /\ envelope.isError = "absent"
    /\ result.val.connected <=> ShopReceived
    /\ ShopReceived =>
         LET shop == response.body.val
         IN  IF shop.has
               THEN /\ result.val.jv = JString(shop.s)
                    /\ result.val.message = "Connected to " \o shop.s
               ELSE result.val.jv = JUndefined
    /\ ~ShopReceived => result.val.jv = JUndefined /\ result.val.message # ""

\* a 200 whose body has no shop field
ConnectionResultWitness ==
  /\ TestedConnection
  /\ response.status = 200
  /\ response.body = EmptyObjectBody
  /\ ~result.thrown
  /\ ~result.val.connected
  /\ result.val.message = PropertyTypeError.message

Deleted == pc = "done" /\ call.op = "delete"

\* the delete operation and its tool report success
DeleteSucceeded == ~result.thrown /\ envelope.isError = "absent"

\* C27 as stated: a delete reports success for every 2xx response, a 204
\* without a body or a 200 with one, and failure for every other response.
DeleteSucceedsOnEvery2xx ==
  Deleted =>
    (DeleteSucceeded <=>
       (response.arrived = "response" /\ ResponseOk(response.status)))

\* C27: a delete reports success for a 204, and for every other 2xx
\* response whose body parses as JSON, whatever the document is (no field
\* of it is read); it reports failure for every non-2xx response, for a
\* network failure, and for a 2xx response other than 204 whose body is
\* no JSON.
DeleteSucceedsOnParsed2xx ==
  Deleted =>
    /\ DeleteSucceeded <=>
         /\ response.arrived = "response"
         /\ ResponseOk(response.status)
         /\ response.status = 204 \/ response.body.k # "invalid"
    /\ ~DeleteSucceeded => result.thrown /\ envelope.isError = "true"

\* a delete answered 200 with the document null
DeleteSucceedsWitness ==
  /\ Deleted
  /\ response.status = 200
  /\ response.body = NullBody
  /\ DeleteSucceeded

\* C29: the wait hint of every RateLimitError that request() raises is a
\* finite, non-negative whole number of seconds, whatever the Retry-After
\* header holds.
WaitHintIsNonNegativeInteger ==
  RateLimited =>
    /\ ~outcome.err.retryAfter.nan
    /\ outcome.err.retryAfter.v >= 0


-----------------------------------------------------------------------------
(* Properties of the Worker's fetch handler *)

Served(i) == worker[i].at # "idle"

IsMcpPost(req) == req.pathname = "/mcp" /\ req.method = "POST"

LacksCredentials(req) == req.headers.accessToken = "" \/ req.headers.shopDomain = ""

\* C25: a POST to /mcp whose access-token or shop-domain header is missing
\* is answered 401 with a JSON error document, and no client is constructed
\* and no upstream request is sent for it; every client that is constructed
\* has both an access token and a shop domain.
CredentialsValidatedBeforeUse ==
  \A i \in Invocations :
    /\ Served(i) /\ IsMcpPost(worker[i].request) /\ LacksCredentials(worker[i].request) =>
         /\ worker[i].at = "done"
         /\ worker[i].http = HttpResponse(401, "application/json", "Unauthorized")
         /\ worker[i].client = NoClient
         /\ worker[i].sent = NoFetch
    /\ worker[i].client # NoClient =>
         /\ worker[i].client.credentials.accessToken # ""
         /\ worker[i].client.credentials.shopDomain # ""

\* a POST to /mcp without its token was refused while another tenant's
\* tool call was waiting for its upstream response
CredentialsValidatedBeforeUseWitness ==
  /\ worker["first"].at = "waiting"
  /\ worker["second"].at = "done"
  /\ IsMcpPost(worker["second"].request)
  /\ worker["second"].request.headers.accessToken = ""
  /\ worker["second"].request.headers.shopDomain # ""
  /\ worker["second"].http.status = 401

\* C30: /health is answered 200 with {status: ok} for any method; POST /mcp
\* goes to the MCP handler or is answered 401; /sse is answered 501; every
\* other request, /mcp with another method included, is answered 200 with
\* the server-information document; and only POST /mcp reads credentials,
\* constructs a client or sends an upstream request.
WorkerRouting ==
  \A i \in Invocations :
    Served(i) =>
      LET req == worker[i].request
          answered(http) == worker[i].at = "done" /\ worker[i].http = http
      IN  /\ req.pathname = "/health" =>
                answered(HttpResponse(200, "application/json",
                           "{\"status\":\"ok\",\"server\":\"shopify-mcp-server\"}"))
          /\ IsMcpPost(req) =>
                \/ answered(HttpResponse(401, "application/json", "Unauthorized"))
                \/ /\ worker[i].client # NoClient
                   /\ worker[i].at \in {"created", "waiting"} /\ worker[i].http = NoHttp
                \/ /\ worker[i].client # NoClient
                   /\ answered(HttpResponse(200, "application/json", "tool result"))
          /\ req.pathname = "/sse" => worker[i].http.status = 501 /\ worker[i].at = "done"
          /\ req.pathname \notin {"/health", "/sse"} /\ ~IsMcpPost(req) =>
                answered(HttpResponse(200, "application/json", "server information"))
          /\ ~IsMcpPost(req) =>
                /\ worker[i].credentials = NoCredentials
                /\ worker[i].client = NoClient
                /\ worker[i].sent = NoFetch

\* a GET of /mcp with a tenant's headers got the server-information
\* document, and a POST of /health got the health document, neither with a
\* client
WorkerRoutingWitness ==
  /\ worker["first"].at = "done"
  /\ worker["first"].request.pathname = "/mcp"
  /\ worker["first"].request.method = "GET"
  /\ worker["first"].request.headers.accessToken = "shpat_a"
  /\ worker["first"].http.body = "server information"
  /\ worker["second"].at = "done"
  /\ worker["second"].request.pathname = "/health"
  /\ worker["second"].request.method = "POST"
  /\ worker["second"].http.status = 200
  /\ worker["second"].client = NoClient

====
